---- MODULE Spec2Model ----
(***************************************************************************)
(* Formula computation core of the indexer: the Environment handed to a    *)
(* formula (getEnv), its per-evaluation memo, the dependency recorder and  *)
(* the versioned event store the getters read.                             *)
(***************************************************************************)
EXTENDS Integers, Sequences, FiniteSets, TLC

VARIABLES
  latest,    \* State.latestBlock.height: height of the last exported block
  wasmRows,  \* WasmStateEvent table
  bankBalances, \* BankBalance table: one row per address, the latest balances
  bankEvents,   \* BankStateEvent table: per-denom balance history
  txEvents,  \* WasmTxEvent table
  contracts, \* Contract table
  transformations, \* WasmStateEventTransformation table
  validators, \* Validator table: the addresses of the stored validators
  computations, \* Computation table
  credits,   \* AccountKeyCredit rows of the account key of the caller
  config,    \* the configuration of the server: ignoreApiKey
  state,     \* the State the compute handler holds: its latestBlock.height
  resp,      \* the last request to the compute handler and what it did
  runs,      \* the range requests the handler is serving, each at its step
  updater,   \* the State snapshot updater: its phase, its run and its timers
  testRateLimit, \* the handler's map from IP address to the last time it was used
  passed,    \* the requests of the test key that passed the rate limit, in order
  twin,      \* a second Environment, built for the same evaluation
  clock,     \* wall clock of the host
  bankWritten, \* whether a bank table was written since the live Environment was built
  pc,        \* "idle" | "eval": whether a formula is being evaluated
  env        \* the live Environment: target block, memo, dependency recorder

\* The rate limit of the test account key.
limitVars == <<testRateLimit, passed>>

vars ==
  <<latest, wasmRows, bankBalances, bankEvents, txEvents, contracts,
    bankWritten, pc, env, twin, clock, transformations,
    validators, computations, credits, config, state, resp, runs, updater, limitVars>>

storeVars == <<latest, wasmRows, bankBalances, bankEvents, txEvents, contracts, bankWritten>>

bankVars == <<bankBalances, bankEvents, txEvents, contracts, bankWritten>>

detVars == <<twin, clock>>

\* The variables that the getters of contract state, balances, contracts and
\* transaction events leave alone.
otherVars ==
  <<transformations, validators, computations, credits, config, state, resp, runs, updater, limitVars>>

\* The variables of the compute handler.
serverVars == <<validators, computations, credits, config, state, resp, runs, updater, limitVars>>

----------------------------------------------------------------------------
(* Bounds *)

MaxHeight == 3

----------------------------------------------------------------------------
(* Keys, dependent keys *)

Comma == 44

WasmNS == "wasm_state"

Addrs == {"A"}

\* Key tuples a formula passes to get/getDateKeyModified/prefetch: each key is
\* a sequence of segments, each segment a sequence of bytes.
MapName == <<1>>
KeyTuples == {<< MapName, <<1>> >>, << MapName, <<2>> >>}

RECURSIVE dbKeyForKeys(_)
\* All segments but the last are length-prefixed (two bytes), the last is raw.
dbKeyForKeys(ks) ==
  IF Len(ks) = 0 THEN <<>>
  ELSE IF Len(ks) = 1 THEN ks[1]
  ELSE <<0, Len(ks[1])>> \o ks[1] \o dbKeyForKeys(Tail(ks))

\* Key prefix of a map: the name(s) followed by an empty key, plus a comma.
mapKeyPrefix(name) == dbKeyForKeys(<<name, <<>> >>) \o <<Comma>>

endsWithComma(key) == Len(key) > 0 /\ key[Len(key)] = Comma

\* String startsWith on the comma-joined byte text. A prefix that ends with a
\* comma matches the keys that continue with at least one more byte.
startsWith(key, prefix) ==
  IF endsWithComma(prefix)
  THEN LET body == SubSeq(prefix, 1, Len(prefix) - 1)
       IN  /\ ~endsWithComma(key)
           /\ Len(key) > Len(body)
           /\ SubSeq(key, 1, Len(body)) = body
  ELSE /\ Len(key) >= Len(prefix)
       /\ SubSeq(key, 1, Len(prefix)) = prefix

getDependentKey(ns, subject, key) == <<ns, subject, key>>

RECURSIVE keyLess(_, _)
\* Ascending order of keys (ORDER BY "key" ASC).
keyLess(a, b) ==
  IF Len(a) = 0 THEN Len(b) > 0
  ELSE IF Len(b) = 0 THEN FALSE
  ELSE IF a[1] # b[1] THEN a[1] < b[1]
  ELSE keyLess(Tail(a), Tail(b))

----------------------------------------------------------------------------
(* Store *)

BlockTimeUnixMs(h) == 1500 * h

valueJson(h) == ToString(h)

JSONParse(s) == CHOOSE n \in 0..(MaxHeight + 1) : ToString(n) = s

WasmRow(a, key, h, del) ==
  [contractAddress |-> a, key |-> key, blockHeight |-> h,
   blockTimeUnixMs |-> BlockTimeUnixMs(h),
   value |-> IF del THEN "" ELSE valueJson(h), delete |-> del]

\* blockHeight: { [Op.lte]: block.height }
blockHeightFilter(r, H) == r.blockHeight <= H

\* findOne(... order: [['blockHeight', 'ASC']]) over the matching rows:
\* a list of zero or one row, the oldest.
findOneAsc(rows) ==
  IF rows = {} THEN <<>>
  ELSE <<CHOOSE r \in rows : \A o \in rows : r.blockHeight <= o.blockHeight>>

\* findOneDesc with the order left out of the query: the oldest matching row.
findOneUnordered(rows) == findOneAsc(rows)

\* findOne(... order: [['blockHeight', 'DESC']]) over the matching rows:
\* a list of zero or one row.
findOneDesc(rows) ==
  IF rows = {} THEN <<>>
  ELSE <<CHOOSE r \in rows : \A o \in rows : o.blockHeight <= r.blockHeight>>

RECURSIVE sortByKey(_)
sortByKey(rows) ==
  IF rows = {} THEN <<>>
  ELSE LET r == CHOOSE x \in rows :
                  \A o \in rows : o.key = x.key \/ keyLess(x.key, o.key)
       IN  <<r>> \o sortByKey(rows \ {r})

\* findAll with DISTINCT ON ("key"), ORDER BY key ASC, blockHeight DESC: the
\* most recent row of each key, in ascending key order.
findAllDistinctOnKey(rows) ==
  sortByKey({r \in rows :
               \A o \in rows : o.key = r.key => o.blockHeight <= r.blockHeight})

----------------------------------------------------------------------------
(* Per-evaluation memo *)

NullEntry == [isNull |-> TRUE, rows |-> <<>>]
ListEntry(rows) == [isNull |-> FALSE, rows |-> rows]

EmptyCache == <<>>

tried(c, dk) == dk \in DOMAIN c

memoState(c, dk) ==
  IF ~tried(c, dk) THEN "undefined"
  ELSE IF c[dk].isNull THEN "null" ELSE "list"

\* cachedEvent?.[0]
firstCached(c, dk) ==
  IF c[dk].isNull \/ Len(c[dk].rows) = 0 THEN <<>> ELSE <<c[dk].rows[1]>>

cachePut(c, dk, entry) ==
  [k \in (DOMAIN c) \cup {dk} |-> IF k = dk THEN entry ELSE c[k]]

RECURSIVE seqToSet(_)
seqToSet(s) == IF s = <<>> THEN {} ELSE {Head(s)} \cup seqToSet(Tail(s))

\* Record of one getter call: its arguments, the state of the memo entry it
\* found, the store reads it made, what it returned, the onFetch invocations
\* it made, the rows it obtained and the dependent keys of the data it read.
Call(op, a, key) ==
  [op |-> op, address |-> a, key |-> key, memo |-> "undefined",
   prior |-> FALSE, prefetched |-> FALSE,
   reads |-> 0, result |-> <<>>, hook |-> <<>>, rows |-> {}, data |-> {}]

NoCall == Call("none", "", <<>>)

\* Whether get or getDateKeyModified was called on the dependent key before.
pointReadBefore(cs, dk) == <<"point", dk>> \in cs

\* Whether the key lies inside a key prefix that prefetch was called on before.
prefetchedPrefixBefore(cs, dk) ==
  \E c \in cs : /\ c[1] = "prefetch"
                /\ c[2][1] = dk[1] /\ c[2][2] = dk[2]
                /\ endsWithComma(c[2][3])
                /\ startsWith(dk[3], c[2][3])

----------------------------------------------------------------------------
(* Exporter *)

ExportWasm(a, ks, del) ==
  /\ latest < MaxHeight
  /\ latest' = latest + 1
  /\ wasmRows' = wasmRows \cup {WasmRow(a, dbKeyForKeys(ks), latest + 1, del)}
  /\ UNCHANGED <<otherVars, bankVars, pc, env, detVars>>

----------------------------------------------------------------------------
(* Environment *)

NoEnv ==
  [block |-> 0, date |-> 0, useBlockDate |-> FALSE, created |-> 0,
   cache |-> EmptyCache, contracts |-> <<>>,
   dependentKeys |-> {}, calls |-> {}, last |-> NoCall]

\* No target contract: the formula is not a contract formula.
NoTarget == ""

\* Contract.findOne / findByPk: a list of zero or one contract.
findContract(a) ==
  IF \E c \in contracts : c.address = a
  THEN <<CHOOSE c \in contracts : c.address = a>>
  ELSE <<>>

\* The contract memo the request handler passes in: the target contract of a
\* contract formula, found before the evaluation; empty otherwise.
handlerContracts(target) ==
  IF target # NoTarget /\ findContract(target) # <<>>
  THEN [a \in {target} |-> findContract(target)]
  ELSE <<>>

\* The date handed to the formula, always the wall clock.
envDateWallClock(useBlockDate, H, now) == now

\* date: useBlockDate ? new Date(Number(block.timeUnixMs)) : new Date()
envDate(useBlockDate, H, now) ==
  IF useBlockDate THEN BlockTimeUnixMs(H) ELSE now

\* The Environment built at wall-clock time now.
newEnv(H, target, useBlockDate, now) ==
  [NoEnv EXCEPT !.block = H,
                !.date = envDate(useBlockDate, H, now),
                !.useBlockDate = useBlockDate,
                !.created = now,
                !.contracts = handlerContracts(target)]

getEnv(H, target, useBlockDate) ==
  /\ pc = "idle"
  /\ H \in 1..latest
  /\ pc' = "eval"
  /\ env' = newEnv(H, target, useBlockDate, clock)
  /\ bankWritten' = FALSE
  /\ UNCHANGED <<otherVars, latest, wasmRows, bankBalances, bankEvents, txEvents, contracts, detVars>>

EndEval ==
  /\ pc = "eval"
  /\ pc' = "idle"
  /\ env' = NoEnv
  /\ twin' = NoEnv
  /\ UNCHANGED <<otherVars, storeVars, clock>>

\* The row get/getDateKeyModified work on: the memo's when the key was tried,
\* the store's otherwise.
pointEvent(c, a, key, H) ==
  LET dk == getDependentKey(WasmNS, a, key)
  IN  IF tried(c, dk)
      THEN firstCached(c, dk)
      ELSE findOneDesc({r \in wasmRows :
                          /\ r.contractAddress = a
                          /\ r.key = key
                          /\ blockHeightFilter(r, H)})

\* pointCache that memoises hits only: a miss leaves the key untried.
pointCacheHitsOnly(c, dk, event) ==
  IF tried(c, dk) \/ event = <<>> THEN c ELSE cachePut(c, dk, ListEntry(event))

\* Cache event, null if nonexistent.
pointCache(c, dk, event) ==
  IF tried(c, dk) THEN c
  ELSE cachePut(c, dk, IF event # <<>> THEN ListEntry(event) ELSE NullEntry)

getResult(event) ==
  IF event = <<>> THEN <<>>
  ELSE IF event[1].delete THEN <<>>
  ELSE <<JSONParse(event[1].value)>>

\* Convert block time to date: new Date(0) then setUTCSeconds(ms / 1e3), which
\* keeps the whole seconds only. The date is given in milliseconds.
blockTimeDate(ms) == (ms \div 1000) * 1000

dateResult(event) ==
  IF event = <<>> THEN <<>> ELSE <<blockTimeDate(event[1].blockTimeUnixMs)>>

\* get and getDateKeyModified differ in the value they build from the event.
pointGetter(e, op, a, ks, result) ==
  LET key == dbKeyForKeys(ks)
      dk == getDependentKey(WasmNS, a, key)
      event == pointEvent(e.cache, a, key, e.block)
  IN  [e EXCEPT
        !.dependentKeys = @ \cup {[key |-> dk, prefix |-> FALSE]},
        !.cache = pointCache(@, dk, event),
        !.calls = @ \cup {<<"point", dk>>},
        !.last = [Call(op, a, key) EXCEPT
                    !.memo = memoState(e.cache, dk),
                    !.prior = pointReadBefore(e.calls, dk),
                    !.prefetched = prefetchedPrefixBefore(e.calls, dk),
                    !.reads = IF tried(e.cache, dk) THEN 0 ELSE 1,
                    !.result = result,
                    !.hook = IF event = <<>> THEN <<>> ELSE <<event>>,
                    !.rows = seqToSet(event),
                    !.data = {dk}]]

envGet(e, a, ks) ==
  pointGetter(e, "get", a, ks,
              getResult(pointEvent(e.cache, a, dbKeyForKeys(ks), e.block)))

envGetDateKeyModified(e, a, ks) ==
  pointGetter(e, "getDateKeyModified", a, ks,
              dateResult(pointEvent(e.cache, a, dbKeyForKeys(ks), e.block)))

get(a, ks) ==
  /\ pc = "eval"
  /\ env' = envGet(env, a, ks)
  /\ UNCHANGED <<otherVars, storeVars, pc, detVars>>

getDateKeyModified(a, ks) ==
  /\ pc = "eval"
  /\ env' = envGetDateKeyModified(env, a, ks)
  /\ UNCHANGED <<otherVars, storeVars, pc, detVars>>

\* Arguments of prefetch: plain key tuples and { keys, map: true } requests.
PrefetchItems ==
  {[keys |-> kt, map |-> FALSE] : kt \in KeyTuples}
    \cup {[keys |-> <<MapName>>, map |-> TRUE]}

PrefetchArgs == {s \in SUBSET PrefetchItems : Cardinality(s) \in 1..2}

prefetchKey(item) ==
  IF item.map THEN dbKeyForKeys(item.keys \o << <<>> >>) \o <<Comma>>
  ELSE dbKeyForKeys(item.keys)

RECURSIVE filterSeq(_, _)
\* events.filter((event) => event.key.startsWith(keyPrefix))
filterSeq(s, prefix) ==
  IF s = <<>> THEN <<>>
  ELSE IF startsWith(Head(s).key, prefix)
       THEN <<Head(s)>> \o filterSeq(Tail(s), prefix)
       ELSE filterSeq(Tail(s), prefix)

\* The single findAll of prefetch: most recent row of every requested key and
\* of every key under a requested prefix, at or below the target block.
prefetchEvents(a, nonMapKeys, mapKeyPrefixes, H) ==
  findAllDistinctOnKey({r \in wasmRows :
    /\ r.contractAddress = a
    /\ \/ r.key \in nonMapKeys
       \/ \E p \in mapKeyPrefixes : startsWith(r.key, p)
    /\ blockHeightFilter(r, H)})

\* If no event found or key deleted, cache null for nonexistent.
prefetchEntry(rows) ==
  IF rows = <<>> \/ rows[1].delete THEN NullEntry ELSE ListEntry(rows)

\* The entry of a prefix without the tombstones under it.
prefetchPrefixEntryLive(rows) ==
  IF \A i \in DOMAIN rows : rows[i].delete THEN NullEntry
  ELSE ListEntry(SelectSeq(rows, LAMBDA r : ~r.delete))

\* If no events found, cache null for nonexistent.
prefetchPrefixEntry(rows) ==
  IF rows = <<>> THEN NullEntry ELSE ListEntry(rows)

\* prefetchCache without the separate entries of the events under a prefix.
prefetchCacheNoSeparate(c, a, nonMapKeys, mapKeyPrefixes, events) ==
  LET evs == seqToSet(events)
      eventOf(key) == findOneDesc({e \in evs : e.key = key})
      written ==
        {getDependentKey(WasmNS, a, k) : k \in nonMapKeys \cup mapKeyPrefixes}
  IN  [dk \in (DOMAIN c) \cup written |->
        IF dk \notin written THEN c[dk]
        ELSE IF dk[3] \in mapKeyPrefixes
             THEN prefetchPrefixEntry(filterSeq(events, dk[3]))
             ELSE prefetchEntry(eventOf(dk[3]))]

\* The memo after prefetch: requested keys first, then each prefix and,
\* separately, every event found under it.
prefetchCache(c, a, nonMapKeys, mapKeyPrefixes, events) ==
  LET evs == seqToSet(events)
      eventOf(key) == findOneDesc({e \in evs : e.key = key})
      underPrefix == {e \in evs : \E p \in mapKeyPrefixes : startsWith(e.key, p)}
      written ==
        {getDependentKey(WasmNS, a, k) : k \in nonMapKeys \cup mapKeyPrefixes}
          \cup {getDependentKey(WasmNS, a, e.key) : e \in underPrefix}
  IN  [dk \in (DOMAIN c) \cup written |->
        IF dk \notin written THEN c[dk]
        ELSE IF dk[3] \in mapKeyPrefixes
             THEN prefetchPrefixEntry(filterSeq(events, dk[3]))
             ELSE prefetchEntry(eventOf(dk[3]))]

envPrefetch(e, a, listOfKeys) ==
  LET nonMapKeys == {prefetchKey(i) : i \in {j \in listOfKeys : ~j.map}}
      mapKeyPrefixes == {prefetchKey(i) : i \in {j \in listOfKeys : j.map}}
      keys == nonMapKeys \cup mapKeyPrefixes
      events == prefetchEvents(a, nonMapKeys, mapKeyPrefixes, e.block)
  IN  [e EXCEPT
        !.dependentKeys = @ \cup
           {[key |-> getDependentKey(WasmNS, a, k), prefix |-> endsWithComma(k)] :
              k \in keys},
        !.cache = prefetchCache(@, a, nonMapKeys, mapKeyPrefixes, events),
        !.calls = @ \cup {<<"prefetch", getDependentKey(WasmNS, a, k)>> : k \in keys},
        !.last = [Call("prefetch", a, keys) EXCEPT
                    !.reads = 1,
                    !.hook = <<events>>,
                    !.rows = seqToSet(events),
                    !.data = {getDependentKey(WasmNS, a, k) : k \in keys}]]

prefetch(a, listOfKeys) ==
  /\ pc = "eval"
  /\ env' = envPrefetch(env, a, listOfKeys)
  /\ UNCHANGED <<otherVars, storeVars, pc, detVars>>

----------------------------------------------------------------------------

\* What the compute handler did with a request: the response, and a trace of
\* the work behind it. evaluated lists the block heights the formula ran at,
\* in order; found and created are the Computation rows read and inserted;
\* updates are the calls of updateValidityUpToBlockHeight; queries counts the
\* finds on the Computation table; charged lists the amounts passed to
\* useCredit; pieces is what computeRange returned for the whole range; blocks
\* is the range after resolving and capping.
Outcome(req) ==
  [req |-> req, status |-> 0, body |-> "", value |-> <<>>,
   evaluated |-> <<>>, pieces |-> <<>>, queries |-> 0, found |-> <<>>,
   created |-> <<>>, updates |-> <<>>, charged |-> <<>>, lookedUp |-> FALSE,
   blocks |-> <<>>]

NoRequest == [key |-> ""]

\* The handler serves at most two requests at a time.
Procs == {1, 2}

\* A request that is not being served.
IdleRun ==
  [pc |-> "idle", req |-> NoRequest, blocks |-> <<>>, chain |-> <<>>,
   created |-> <<>>, alone |-> {}]

NoRuns == [p \in Procs |-> IdleRun]

\* The updater of a server that holds its State and runs no timer.
NoUpdater == [phase |-> "serving", running |-> FALSE, timers |-> <<>>, last |-> "none"]

\* No IP address has used the test account key.
NoRateLimit == [ip \in {} |-> 0]

\* Credit rows hold at most MaxCredit credits, and are followed for MaxHits uses.
MaxCredit == 2
MaxHits == 3

CreditRow(id, amount) == [id |-> id, amount |-> amount, used |-> 0, hits |-> 0]

\* The compute handler has served no request; the caller holds no credit.
InitServer ==
  /\ validators = {"V"}
  /\ computations = {}
  /\ credits = {}
  /\ config = [ignoreApiKey |-> FALSE]
  /\ state = 0
  /\ resp = Outcome(NoRequest)
  /\ runs = NoRuns
  /\ updater = NoUpdater
  /\ testRateLimit = NoRateLimit
  /\ passed = <<>>

Init ==
  /\ latest = 0
  /\ wasmRows = {}
  /\ bankBalances = {}
  /\ bankEvents = {}
  /\ txEvents = {}
  /\ contracts = {}
  /\ bankWritten = FALSE
  /\ pc = "idle"
  /\ env = NoEnv
  /\ twin = NoEnv
  /\ clock = 0
  /\ transformations = {}
  /\ InitServer

Next ==
  \/ \E a \in Addrs, ks \in KeyTuples, del \in BOOLEAN : ExportWasm(a, ks, del)
  \/ \E H \in 1..MaxHeight : getEnv(H, NoTarget, FALSE)
  \/ EndEval
  \/ \E a \in Addrs, ks \in KeyTuples : get(a, ks)
  \/ \E a \in Addrs, ks \in KeyTuples : getDateKeyModified(a, ks)
  \/ \E a \in Addrs, items \in PrefetchArgs : prefetch(a, items)

Spec == Init /\ [][Next]_vars

----------------------------------------------------------------------------
(* Bank balances, contracts and transaction events *)

BankBalanceNS == "bank_balance"
BankStateNS == "bank_state"
WasmTxNS == "wasm_tx"

\* "A" is a contract, "W" is a wallet.
BankAddrs == {"A", "W"}
Denoms == {<<1>>, <<2>>}

CodeIds == {1, 2}
CodeIdsKeys == {"dao", "other"}

\* WasmCodeService.findWasmCodeIdsByKeys: the code ids configured under any
\* of the keys.
findWasmCodeIdsByKeys(keys) ==
  UNION {IF k = "dao" THEN {1} ELSE IF k = "other" THEN {2} ELSE {} : k \in keys}

\* The code id keys of the contracts whose balance history is kept.
BANK_HISTORY_CODE_IDS_KEYS == {"dao"}

ContractRow(a, codeId) == [address |-> a, codeId |-> codeId]

BankBalanceRow(a, h, balances) ==
  [model |-> "BankBalance", address |-> a, blockHeight |-> h,
   balances |-> balances]

BankStateRow(a, denom, h, balance) ==
  [model |-> "BankStateEvent", address |-> a, denom |-> denom,
   blockHeight |-> h, balance |-> balance]

WasmTxRow(a, h) ==
  [model |-> "WasmTxEvent", contractAddress |-> a, blockHeight |-> h]

\* The balances of the single BankBalance row of an address, none if no row.
balancesOf(a) ==
  IF \E r \in bankBalances : r.address = a
  THEN (CHOOSE r \in bankBalances : r.address = a).balances
  ELSE <<>>

\* A balance change of one denom at the next block: the BankBalance row of the
\* address is replaced by the latest set of balances, and a BankStateEvent is
\* appended for a contract.
ExportBank(a, denom) ==
  /\ latest < MaxHeight
  /\ latest' = latest + 1
  /\ LET old == balancesOf(a)
         new == [d \in (DOMAIN old) \cup {denom} |->
                   IF d = denom THEN valueJson(latest + 1) ELSE old[d]]
     IN  bankBalances' = {r \in bankBalances : r.address # a}
                           \cup {BankBalanceRow(a, latest + 1, new)}
  /\ bankEvents' =
       IF findContract(a) # <<>>
       THEN bankEvents \cup {BankStateRow(a, denom, latest + 1, valueJson(latest + 1))}
       ELSE bankEvents
  /\ bankWritten' = (bankWritten \/ pc = "eval")
  /\ UNCHANGED <<otherVars, wasmRows, txEvents, contracts, pc, env, detVars>>

\* A transaction executed on a contract at the next block.
ExportTx(a) ==
  /\ latest < MaxHeight
  /\ findContract(a) # <<>>
  /\ latest' = latest + 1
  /\ txEvents' = txEvents \cup {WasmTxRow(a, latest + 1)}
  /\ UNCHANGED <<otherVars, wasmRows, bankBalances, bankEvents, contracts, bankWritten, pc, env, detVars>>

\* codeIdsKeysFilter?.length ? getCodeIdsForKeys(...codeIdsKeysFilter) : null
\* A filter is [given, keys]; the result is a list of zero or one set of ids.
filterCodeIds(filter) ==
  IF filter.given /\ filter.keys # {}
  THEN <<findWasmCodeIdsByKeys(filter.keys)>>
  ELSE <<>>

codeIdsInclude(codeIds, contract) ==
  codeIds = <<>> \/ contract.codeId \in codeIds[1]

\* getContract over the contract memo cc (absent address: not tried, <<>>:
\* null): the memo after the call, the result and the store reads made. The
\* memoised contract is returned without the code id check.
contractStepNoCachedFilter(cc, a, filter) ==
  LET codeIds == filterCodeIds(filter)
      contract == findContract(a)
  IN  IF a \in DOMAIN cc
      THEN [contracts |-> cc, reads |-> 0,
            result |-> IF cc[a] = <<>> THEN <<>> ELSE <<cc[a][1]>>]
      ELSE [contracts |-> [k \in (DOMAIN cc) \cup {a} |->
                             IF k = a THEN contract ELSE cc[k]],
            reads |-> 1,
            result |-> IF contract # <<>> /\ codeIdsInclude(codeIds, contract[1])
                       THEN <<contract[1]>> ELSE <<>>]

\* getContract over the contract memo cc (absent address: not tried, <<>>:
\* null): the memo after the call, the result and the store reads made.
contractStep(cc, a, filter) ==
  LET codeIds == filterCodeIds(filter)
      contract == findContract(a)
  IN  IF a \in DOMAIN cc
      THEN [contracts |-> cc, reads |-> 0,
            result |-> IF cc[a] = <<>> \/ ~codeIdsInclude(codeIds, cc[a][1])
                       THEN <<>> ELSE <<cc[a][1]>>]
      ELSE [contracts |-> [k \in (DOMAIN cc) \cup {a} |->
                             IF k = a THEN contract ELSE cc[k]],
            reads |-> 1,
            result |-> IF contract # <<>> /\ codeIdsInclude(codeIds, contract[1])
                       THEN <<contract[1]>> ELSE <<>>]

\* The datum a contract lookup reads: the Contract row of the address.
contractDependentKey(a) == getDependentKey("contract", a, <<>>)

envGetContract(e, a, filter) ==
  LET step == contractStep(e.contracts, a, filter)
  IN  [e EXCEPT
        !.contracts = step.contracts,
        !.last = [Call("getContract", a, filter) EXCEPT
                    !.memo = IF a \in DOMAIN e.contracts THEN "list" ELSE "undefined",
                    !.reads = step.reads,
                    !.result = step.result,
                    !.data = {contractDependentKey(a)}]]

\* !!(await getContract(contractAddress, keys))
envContractMatchesCodeIdKeys(e, a, keys) ==
  LET step == contractStep(e.contracts, a, [given |-> TRUE, keys |-> keys])
  IN  [e EXCEPT
        !.contracts = step.contracts,
        !.last = [Call("contractMatchesCodeIdKeys", a, keys) EXCEPT
                    !.reads = step.reads,
                    !.result = <<step.result # <<>> >>,
                    !.data = {contractDependentKey(a)}]]

getContract(a, filter) ==
  /\ pc = "eval"
  /\ env' = envGetContract(env, a, filter)
  /\ UNCHANGED <<otherVars, storeVars, pc, detVars>>

contractMatchesCodeIdKeys(a, keys) ==
  /\ pc = "eval"
  /\ env' = envContractMatchesCodeIdKeys(env, a, keys)
  /\ UNCHANGED <<otherVars, storeVars, pc, detVars>>

\* getTxEvents: the dependency is a prefix over the contract's events; the
\* rows are read with no memo and no onFetch.
envGetTxEvents(e, a) ==
  LET dk == getDependentKey(WasmTxNS, a, <<>>)
      found == {r \in txEvents : r.contractAddress = a /\ blockHeightFilter(r, e.block)}
  IN  [e EXCEPT
        !.dependentKeys = @ \cup {[key |-> dk, prefix |-> TRUE]},
        !.last = [Call("getTxEvents", a, <<>>) EXCEPT
                    !.reads = 1,
                    !.result = IF found = {} THEN <<>> ELSE <<found>>,
                    !.hook = <<>>,
                    !.rows = found,
                    !.data = {getDependentKey(WasmTxNS, a, <<r.blockHeight>>) : r \in found}]]

getTxEvents(a) ==
  /\ pc = "eval"
  /\ env' = envGetTxEvents(env, a)
  /\ UNCHANGED <<otherVars, storeVars, pc, detVars>>

\* bankBalance.balances[denom]
balanceOf(row, denom) ==
  IF denom \in DOMAIN row.balances THEN <<row.balances[denom]>> ELSE <<>>

\* BankBalance.findOne over the address at or below the target block.
findBankBalance(a, H) ==
  findOneDesc({r \in bankBalances : r.address = a /\ blockHeightFilter(r, H)})

\* BankStateEvent.findOne over address and denom, latest first.
findBankStateEvent(a, denom, H) ==
  findOneDesc({r \in bankEvents :
                 r.address = a /\ r.denom = denom /\ blockHeightFilter(r, H)})

\* historyExists, asked of any code id keys at all.
historyStepAnyContract(cc, a) ==
  contractStep(cc, a, [given |-> FALSE, keys |-> {}])

\* historyExists: contractMatchesCodeIdKeys(address, ...BANK_HISTORY_CODE_IDS_KEYS)
historyStep(cc, a) ==
  contractStep(cc, a, [given |-> TRUE, keys |-> BANK_HISTORY_CODE_IDS_KEYS])

envGetBalance(e, a, denom) ==
  LET bankBalanceDependentKey == getDependentKey(BankBalanceNS, a, <<>>)
      wasTried == tried(e.cache, bankBalanceDependentKey)
      bankBalance ==
        IF wasTried THEN firstCached(e.cache, bankBalanceDependentKey)
        ELSE findBankBalance(a, e.block)
      cache1 == pointCache(e.cache, bankBalanceDependentKey, bankBalance)
      balanceReads == IF wasTried THEN 0 ELSE 1
      found == bankBalance # <<>> /\ bankBalance[1].model = "BankBalance"
      history == historyStep(e.contracts, a)
      dependentKey == getDependentKey(BankStateNS, a, denom)
      eventTried == tried(cache1, dependentKey)
      event ==
        IF eventTried THEN firstCached(cache1, dependentKey)
        ELSE findBankStateEvent(a, denom, e.block)
      call == [Call("getBalance", a, denom) EXCEPT
                 !.memo = memoState(e.cache, bankBalanceDependentKey)]
  IN  IF found
      THEN [e EXCEPT
             !.cache = cache1,
             !.last = [call EXCEPT
                         !.reads = balanceReads,
                         !.result = balanceOf(bankBalance[1], denom),
                         !.hook = <<bankBalance>>,
                         !.rows = seqToSet(bankBalance),
                         !.data = {bankBalanceDependentKey}]]
      ELSE IF history.result = <<>>
      THEN [e EXCEPT
             !.cache = cache1,
             !.contracts = history.contracts,
             !.last = [call EXCEPT
                         !.reads = balanceReads + history.reads,
                         !.data = {bankBalanceDependentKey}]]
      ELSE [e EXCEPT
             !.cache = pointCache(cache1, dependentKey, event),
             !.contracts = history.contracts,
             !.dependentKeys = @ \cup {[key |-> dependentKey, prefix |-> FALSE]},
             !.last = [call EXCEPT
                         !.reads = balanceReads + history.reads
                                     + (IF eventTried THEN 0 ELSE 1),
                         !.result = IF event = <<>> THEN <<>> ELSE <<event[1].balance>>,
                         !.hook = IF event = <<>> THEN <<>> ELSE <<event>>,
                         !.rows = seqToSet(event),
                         !.data = {bankBalanceDependentKey, dependentKey}]]

getBalance(a, denom) ==
  /\ pc = "eval"
  /\ env' = envGetBalance(env, a, denom)
  /\ UNCHANGED <<otherVars, storeVars, pc, detVars>>

\* The code id key filters the getters are called with: none, an empty list,
\* and lists of one key.
FilterArgs ==
  {[given |-> FALSE, keys |-> {}], [given |-> TRUE, keys |-> {}]}
    \cup {[given |-> TRUE, keys |-> {k}] : k \in CodeIdsKeys}

InitBank ==
  /\ latest = 0
  /\ wasmRows = {}
  /\ bankBalances = {}
  /\ bankEvents = {}
  /\ txEvents = {}
  /\ \E codeId \in CodeIds : contracts = {ContractRow("A", codeId)}
  /\ bankWritten = FALSE
  /\ pc = "idle"
  /\ env = NoEnv
  /\ twin = NoEnv
  /\ clock = 0
  /\ transformations = {}
  /\ InitServer

NextBank ==
  \/ \E a \in BankAddrs, denom \in Denoms : ExportBank(a, denom)
  \/ \E H \in 1..MaxHeight, target \in {NoTarget, "A"} : getEnv(H, target, FALSE)
  \/ EndEval
  \/ \E a \in BankAddrs, denom \in Denoms : getBalance(a, denom)

SpecBank == InitBank /\ [][NextBank]_vars

NextContract ==
  \/ ExportTx("A")
  \/ \E H \in 1..MaxHeight, target \in {NoTarget, "A"} : getEnv(H, target, FALSE)
  \/ EndEval
  \/ \E a \in BankAddrs, filter \in FilterArgs : getContract(a, filter)
  \/ \E a \in BankAddrs, keys \in {{}, {"dao"}} : contractMatchesCodeIdKeys(a, keys)
  \/ getTxEvents("A")

SpecContract == InitBank /\ [][NextContract]_vars


----------------------------------------------------------------------------
(* Most-recent semantics of the point getters *)

rowsAtOrBelow(a, key, H) ==
  {r \in wasmRows : r.contractAddress = a /\ r.key = key /\ r.blockHeight <= H}

isMostRecent(r, rows) == r \in rows /\ \A o \in rows : o.blockHeight <= r.blockHeight

\* The exporter stores the JSON text of the block's height as a row's value,
\* so the value a row holds is its height.
storedValue(r) == r.blockHeight

\* C1: env.get returns the parsed value of the row with the greatest
\* blockHeight <= H of the (address, key); absent when there is no such row or
\* when it is a tombstone; a later non-tombstone row makes the key present again.
C1_GetMostRecent ==
  (pc = "eval" /\ env.last.op = "get") =>
    LET rows == rowsAtOrBelow(env.last.address, env.last.key, env.block)
    IN  /\ (rows = {} => env.last.result = <<>>)
        /\ \A r \in rows : isMostRecent(r, rows) =>
             env.last.result = IF r.delete THEN <<>> ELSE <<storedValue(r)>>

\* A get that returns the value of a row written above a tombstone of the key.
C1_Witness ==
  /\ pc = "eval" /\ env.last.op = "get" /\ env.last.result # <<>>
  /\ \E t \in rowsAtOrBelow(env.last.address, env.last.key, env.block) :
       t.delete /\ t.blockHeight < env.last.result[1]

\* C2: getDateKeyModified returns the block time of the row with the greatest
\* blockHeight <= H of the key, tombstone or not, and is absent only when no
\* row exists at or below H.
C2_DateKeyModified ==
  (pc = "eval" /\ env.last.op = "getDateKeyModified") =>
    LET rows == rowsAtOrBelow(env.last.address, env.last.key, env.block)
    IN  /\ (rows = {} <=> env.last.result = <<>>)
        /\ \A r \in rows : isMostRecent(r, rows) =>
             env.last.result = <<r.blockTimeUnixMs>>

\* C4: after a first get or getDateKeyModified of an exact key, every later
\* get or getDateKeyModified of that key performs zero store reads, whether
\* the memo holds a list or null; only an untried key causes a store read.
C4_MemoNoReread ==
  (pc = "eval" /\ env.last.op \in {"get", "getDateKeyModified"}) =>
    /\ (env.last.prior => env.last.reads = 0)
    /\ (env.last.reads > 0 <=> env.last.memo = "undefined")

\* A repeated read of a key whose first read found nothing.
C4_Witness ==
  /\ pc = "eval" /\ env.last.op \in {"get", "getDateKeyModified"}
  /\ env.last.prior /\ env.last.memo = "null" /\ env.last.reads = 0

\* C5 as stated: after prefetch of a key prefix, get of any key inside the
\* prefix performs zero store reads, also for keys with no row at or below H.
C5_PrefetchedPrefixNoRead ==
  (pc = "eval" /\ env.last.op = "get" /\ env.last.prefetched) => env.last.reads = 0

\* C5 amended: after prefetch of a key prefix, get of a key inside the prefix
\* that has a row at or below H performs zero store reads.
C5_PrefetchedRowNoRead ==
  (pc = "eval" /\ env.last.op = "get" /\ env.last.prefetched
     /\ rowsAtOrBelow(env.last.address, env.last.key, env.block) # {})
    => env.last.reads = 0

\* A get served from the memo for a tombstoned key inside a prefetched prefix.
C5_Witness ==
  /\ pc = "eval" /\ env.last.op = "get" /\ env.last.prefetched /\ ~env.last.prior
  /\ env.last.reads = 0
  /\ \E r \in rowsAtOrBelow(env.last.address, env.last.key, env.block) : r.delete

----------------------------------------------------------------------------
(* Two evaluations of one formula over a fixed store *)

MaxClock == 1

\* The exporter writes between evaluations only.
ExportIdle(a, ks, del) ==
  /\ pc = "idle"
  /\ ExportWasm(a, ks, del)

\* Two Environments for the same (block, useBlockDate), the second built when
\* the wall clock reads later.
getEnvTwice(H, useBlockDate, later) ==
  /\ pc = "idle"
  /\ H \in 1..latest
  /\ later \in clock..MaxClock
  /\ pc' = "eval"
  /\ env' = newEnv(H, NoTarget, useBlockDate, clock)
  /\ twin' = newEnv(H, NoTarget, useBlockDate, later)
  /\ clock' = later
  /\ bankWritten' = FALSE
  /\ UNCHANGED <<otherVars, latest, wasmRows, bankBalances, bankEvents, txEvents, contracts>>

\* The formula makes the same getter call in both evaluations.
getTwice(a, ks) ==
  /\ pc = "eval"
  /\ env' = envGet(env, a, ks)
  /\ twin' = envGet(twin, a, ks)
  /\ UNCHANGED <<otherVars, storeVars, pc, clock>>

getDateKeyModifiedTwice(a, ks) ==
  /\ pc = "eval"
  /\ env' = envGetDateKeyModified(env, a, ks)
  /\ twin' = envGetDateKeyModified(twin, a, ks)
  /\ UNCHANGED <<otherVars, storeVars, pc, clock>>

NextDet ==
  \/ \E a \in Addrs, ks \in KeyTuples, del \in BOOLEAN : ExportIdle(a, ks, del)
  \/ \E H \in 1..MaxHeight, useBlockDate \in BOOLEAN, later \in 0..MaxClock :
       getEnvTwice(H, useBlockDate, later)
  \/ EndEval
  \/ \E a \in Addrs, ks \in KeyTuples : getTwice(a, ks)
  \/ \E a \in Addrs, ks \in KeyTuples : getDateKeyModifiedTwice(a, ks)

SpecDet == Init /\ [][NextDet]_vars

----------------------------------------------------------------------------
(* Dependencies, hooks, balances and contracts *)

\* Whether a recorded dependency describes the datum with dependent key d.
depMatches(dep, d) ==
  IF dep.prefix
  THEN dep.key[1] = d[1] /\ dep.key[2] = d[2] /\ startsWith(d[3], dep.key[3])
  ELSE dep.key = d

\* C3: every datum a getter call read is matched by a recorded dependency, by
\* exact key equality when prefix is false and by startsWith when it is true.
C3_ReadsRecorded ==
  (pc = "eval" /\ env.last.op # "none") =>
    \A d \in env.last.data : \E dep \in env.dependentKeys : depMatches(dep, d)

\* The result of getBalance in a fresh Environment bound to block H.
freshBalance(a, denom, H) ==
  envGetBalance(newEnv(H, NoTarget, FALSE, clock), a, denom).last.result

\* C7: a getter's result at target block H is the same whatever the exporter
\* writes at heights above H: an exporter step leaves the balance at every
\* block at or below the previous latest block unchanged.
C7_SnapshotUnderWrites ==
  [][latest' > latest =>
       \A a \in BankAddrs, denom \in Denoms, H \in 1..latest :
         freshBalance(a, denom, H)' = freshBalance(a, denom, H)]_vars

\* C8: a getter call that obtained at least one row invoked onFetch with
\* those rows.
C8_OnFetchInvoked ==
  (pc = "eval" /\ env.last.op # "none") =>
    \A r \in env.last.rows :
      \E i \in DOMAIN env.last.hook : r \in seqToSet(env.last.hook[i])

\* Whether the address is a contract whose code id is under one of the
\* bank-history code id keys.
keepsHistory(a) ==
  \E c \in contracts :
    c.address = a /\ c.codeId \in findWasmCodeIdsByKeys(BANK_HISTORY_CODE_IDS_KEYS)

\* C9: with no bank write since the Environment was built, getBalance returns
\* the denom's entry of the BankBalance row of the address when that row is at
\* or below the target block; with no such row it returns the balance of the
\* most recent BankStateEvent of (address, denom) at or below the target block
\* if and only if the address is a contract that history is kept for, and
\* absent otherwise.
C9_GetBalance ==
  (pc = "eval" /\ env.last.op = "getBalance" /\ ~bankWritten) =>
    LET a == env.last.address
        denom == env.last.key
        snapshot == {r \in bankBalances : r.address = a /\ r.blockHeight <= env.block}
        history == {r \in bankEvents :
                      r.address = a /\ r.denom = denom /\ r.blockHeight <= env.block}
    IN  IF snapshot # {}
        THEN \A r \in snapshot :
               env.last.result =
                 IF denom \in DOMAIN r.balances THEN <<r.balances[denom]>> ELSE <<>>
        ELSE IF keepsHistory(a) /\ history # {}
        THEN \A r \in history :
               isMostRecent(r, history) => env.last.result = <<r.balance>>
        ELSE env.last.result = <<>>

\* A getBalance that fell back to the balance history of a contract.
C9_Witness ==
  /\ pc = "eval" /\ env.last.op = "getBalance" /\ ~bankWritten
  /\ \A r \in bankBalances : r.address = env.last.address => r.blockHeight > env.block
  /\ \E r \in bankBalances : r.address = env.last.address
  /\ env.last.result # <<>>

\* The contract record the getters are described to return: the contract when
\* it exists and passes the filter. emptyIsNone tells whether a supplied empty
\* list of keys counts as no filter.
describedContract(a, filter, emptyIsNone) ==
  LET c == findContract(a)
  IN  IF /\ c # <<>>
         /\ \/ ~filter.given
            \/ emptyIsNone /\ filter.keys = {}
            \/ c[1].codeId \in findWasmCodeIdsByKeys(filter.keys)
      THEN c ELSE <<>>

describedAnswers(emptyIsNone) ==
  /\ (pc = "eval" /\ env.last.op = "getContract") =>
       env.last.result = describedContract(env.last.address, env.last.key, emptyIsNone)
  /\ (pc = "eval" /\ env.last.op = "contractMatchesCodeIdKeys") =>
       env.last.result =
         << describedContract(env.last.address,
                              [given |-> TRUE, keys |-> env.last.key],
                              emptyIsNone) # <<>> >>

\* C10 as stated: getContract returns the contract record if and only if the
\* contract exists and either no filter is supplied or its code id is in the
\* set resolved from the supplied keys, from the memo as from the store, and
\* contractMatchesCodeIdKeys is true exactly when getContract returns a record.
C10_GetContractFiltered == describedAnswers(FALSE)

\* C10 amended: as stated, with a supplied empty list of keys counting as no
\* filter: the contract is returned whenever it exists, and
\* contractMatchesCodeIdKeys with no keys is true for every existing contract.
C10_GetContractEmptyFilter == describedAnswers(TRUE)

\* A getContract answered from the memo that withholds an existing contract
\* because its code id is not under the supplied keys.
C10_Witness ==
  /\ pc = "eval" /\ env.last.op = "getContract"
  /\ env.last.memo = "list" /\ env.last.reads = 0
  /\ findContract(env.last.address) # <<>>
  /\ env.last.key.keys # {}
  /\ env.last.result = <<>>

\* C6 as stated: two evaluations over the same store and the same block hand
\* the formula the same getter results, date and block and record the same
\* set of dependent keys.
C6_SameRuns ==
  pc = "eval" =>
    /\ twin.last.result = env.last.result
    /\ twin.dependentKeys = env.dependentKeys
    /\ twin.block = env.block
    /\ twin.date = env.date

\* C6 amended: the getter results, the block and the recorded dependent keys
\* are the same in the two evaluations, and the date is the same when
\* useBlockDate is set; otherwise the date is the wall clock of each run.
C6_SameRunsBlockDate ==
  pc = "eval" =>
    /\ twin.last.result = env.last.result
    /\ twin.dependentKeys = env.dependentKeys
    /\ twin.block = env.block
    /\ env.useBlockDate => twin.date = env.date

\* Two evaluations at the block date, built at different wall-clock times,
\* that both read a stored value.
C6_Witness ==
  /\ pc = "eval" /\ env.useBlockDate
  /\ twin.created > env.created
  /\ env.last.op = "get" /\ env.last.result # <<>>
  /\ twin.last.op = "get"

----------------------------------------------------------------------------
(* getMap *)

\* An item stored next to the map, under a key outside the map's prefix.
ItemKeyTuple == << MapName >>

\* dbKeyToKeys(..., [false])[0]: the bytes of the trailing segment decoded to
\* the text of their characters, one character per byte.
dbKeyToKeys(bytes) == [i \in DOMAIN bytes |-> ToString(bytes[i])]

\* event.key.slice(keyPrefix.length)
sliceKey(key, keyPrefix) == SubSeq(key, Len(keyPrefix), Len(key))

mapKey(event, keyPrefix, keyType) ==
  IF keyType = "string" THEN dbKeyToKeys(sliceKey(event.key, keyPrefix))
  ELSE sliceKey(event.key, keyPrefix)

\* The map built without removing the delete events.
buildMapWithDeleted(events, keyPrefix, keyType) ==
  LET evs == seqToSet(events)
  IN  [k \in {mapKey(ev, keyPrefix, keyType) : ev \in evs} |->
         LET i == CHOOSE i \in DOMAIN events :
                    /\ mapKey(events[i], keyPrefix, keyType) = k
                    /\ \A j \in DOMAIN events :
                         mapKey(events[j], keyPrefix, keyType) = k => j <= i
         IN  IF events[i].delete THEN 0 ELSE JSONParse(events[i].value)]

\* Remove delete events, then map[mapKey] = JSON.parse(event.value) in the
\* order of the events: the last event of a map key wins.
buildMap(events, keyPrefix, keyType) ==
  LET live == {i \in DOMAIN events : ~events[i].delete}
  IN  [k \in {mapKey(events[i], keyPrefix, keyType) : i \in live} |->
         LET i == CHOOSE i \in live :
                    /\ mapKey(events[i], keyPrefix, keyType) = k
                    /\ \A j \in live :
                         mapKey(events[j], keyPrefix, keyType) = k => j <= i
         IN  JSONParse(events[i].value)]

envGetMap(e, a, name, keyType) ==
  LET keyPrefix == mapKeyPrefix(name)
      dependentKey == getDependentKey(WasmNS, a, keyPrefix)
      wasTried == tried(e.cache, dependentKey)
      events ==
        IF wasTried
        THEN (IF e.cache[dependentKey].isNull THEN <<>> ELSE e.cache[dependentKey].rows)
        ELSE findAllDistinctOnKey({r \in wasmRows :
               /\ r.contractAddress = a
               /\ startsWith(r.key, keyPrefix)
               /\ blockHeightFilter(r, e.block)})
  IN  [e EXCEPT
        !.dependentKeys = @ \cup {[key |-> dependentKey, prefix |-> TRUE]},
        !.cache = IF wasTried THEN @
                  ELSE cachePut(@, dependentKey,
                                IF Len(events) > 0 THEN ListEntry(events) ELSE NullEntry),
        !.calls = @ \cup {<<"map", dependentKey>>},
        !.last = [Call("getMap", a, [prefix |-> keyPrefix, keyType |-> keyType]) EXCEPT
                    !.memo = memoState(e.cache, dependentKey),
                    !.prior = <<"map", dependentKey>> \in e.calls,
                    !.prefetched = <<"prefetch", dependentKey>> \in e.calls,
                    !.reads = IF wasTried THEN 0 ELSE 1,
                    !.result = IF Len(events) = 0 THEN <<>>
                               ELSE <<buildMap(events, keyPrefix, keyType)>>,
                    !.hook = IF Len(events) = 0 THEN <<>> ELSE <<events>>,
                    !.rows = seqToSet(events),
                    !.data = {dependentKey}]]

getMap(a, name, keyType) ==
  /\ pc = "eval"
  /\ env' = envGetMap(env, a, name, keyType)
  /\ UNCHANGED <<otherVars, storeVars, pc, detVars>>

MapStoreKeys == KeyTuples \cup {ItemKeyTuple}

NextMap ==
  \/ \E a \in Addrs, ks \in MapStoreKeys, del \in BOOLEAN : ExportWasm(a, ks, del)
  \/ \E H \in 1..MaxHeight : getEnv(H, NoTarget, FALSE)
  \/ EndEval
  \/ \E a \in Addrs, keyType \in {"string", "raw"} : getMap(a, MapName, keyType)
  \/ \E a \in Addrs : prefetch(a, {[keys |-> <<MapName>>, map |-> TRUE]})

SpecMap == Init /\ [][NextMap]_vars

\* The rows under the name prefix at or below the target block.
rowsUnderPrefix(a, keyPrefix, H) ==
  {r \in wasmRows :
     r.contractAddress = a /\ startsWith(r.key, keyPrefix) /\ r.blockHeight <= H}

\* The most recent rows of the keys under the prefix that are not tombstones.
liveUnderPrefix(a, keyPrefix, H) ==
  {r \in rowsUnderPrefix(a, keyPrefix, H) :
     /\ ~r.delete
     /\ \A o \in rowsUnderPrefix(a, keyPrefix, H) :
          o.key = r.key => o.blockHeight <= r.blockHeight}

\* C11: getMap returns absent when no row under the name prefix is at or below
\* the target block; otherwise a mapping with exactly one entry for each key
\* under the prefix whose most recent row at or below the target block is not
\* a tombstone, keyed by the trailing segment and valued by that row's value.
C11_GetMap ==
  (pc = "eval" /\ env.last.op = "getMap") =>
    LET a == env.last.address
        keyPrefix == env.last.key.prefix
        trailing(r) == SubSeq(r.key, Len(keyPrefix), Len(r.key))
        under == rowsUnderPrefix(a, keyPrefix, env.block)
        live == liveUnderPrefix(a, keyPrefix, env.block)
    IN  /\ (under = {} <=> env.last.result = <<>>)
        /\ under # {} =>
             LET map == env.last.result[1]
             IN  /\ Cardinality(DOMAIN map) = Cardinality(live)
                 /\ \A r \in live :
                      \E k \in DOMAIN map :
                        /\ map[k] = storedValue(r)
                        /\ k = IF env.last.key.keyType = "string"
                               THEN [i \in DOMAIN trailing(r) |-> ToString(trailing(r)[i])]
                               ELSE trailing(r)

\* A getMap over a map with a live key and a tombstoned key, next to an item
\* outside the prefix.
C11_Witness ==
  /\ pc = "eval" /\ env.last.op = "getMap"
  /\ env.last.result # <<>>
  /\ Cardinality(DOMAIN env.last.result[1]) = 1
  /\ \E r \in rowsUnderPrefix(env.last.address, env.last.key.prefix, env.block) : r.delete
  /\ \E r \in wasmRows : r.key = dbKeyForKeys(ItemKeyTuple) /\ r.blockHeight <= env.block

----------------------------------------------------------------------------
(* getDateKeyFirstSet *)

\* The first set event of the key: findOne with delete: false, ordered by
\* blockHeight ASC. The memo is not consulted.
firstSetEvent(a, key, H) ==
  findOneAsc({r \in wasmRows :
                /\ r.contractAddress = a
                /\ r.key = key
                /\ ~r.delete
                /\ blockHeightFilter(r, H)})

envGetDateKeyFirstSet(e, a, ks) ==
  LET key == dbKeyForKeys(ks)
      dk == getDependentKey(WasmNS, a, key)
      event == firstSetEvent(a, key, e.block)
  IN  [e EXCEPT
        !.dependentKeys = @ \cup {[key |-> dk, prefix |-> FALSE]},
        !.last = [Call("getDateKeyFirstSet", a, key) EXCEPT
                    !.memo = memoState(e.cache, dk),
                    !.prior = pointReadBefore(e.calls, dk),
                    !.prefetched = <<"prefetch", dk>> \in e.calls,
                    !.reads = 1,
                    !.result = dateResult(event),
                    !.hook = IF event = <<>> THEN <<>> ELSE <<event>>,
                    !.rows = seqToSet(event),
                    !.data = {dk}]]

getDateKeyFirstSet(a, ks) ==
  /\ pc = "eval"
  /\ env' = envGetDateKeyFirstSet(env, a, ks)
  /\ UNCHANGED <<otherVars, storeVars, pc, detVars>>

NextFirstSet ==
  \/ \E a \in Addrs, ks \in KeyTuples, del \in BOOLEAN : ExportWasm(a, ks, del)
  \/ \E H \in 1..MaxHeight : getEnv(H, NoTarget, FALSE)
  \/ EndEval
  \/ \E a \in Addrs, ks \in KeyTuples : get(a, ks)
  \/ \E a \in Addrs, ks \in KeyTuples : prefetch(a, {[keys |-> ks, map |-> FALSE]})
  \/ \E a \in Addrs, ks \in KeyTuples : getDateKeyFirstSet(a, ks)

SpecFirstSet == Init /\ [][NextFirstSet]_vars

\* The non-tombstone rows of the key at or below the target block.
setRowsAtOrBelow(a, key, H) == {r \in rowsAtOrBelow(a, key, H) : ~r.delete}

\* C12: getDateKeyFirstSet returns the block time of the lowest non-tombstone
\* row of the key at or below the target block, absent if there is none, and
\* always reads the store, whatever the memo holds for the key.
C12_DateKeyFirstSet ==
  (pc = "eval" /\ env.last.op = "getDateKeyFirstSet") =>
    LET rows == setRowsAtOrBelow(env.last.address, env.last.key, env.block)
    IN  /\ env.last.reads = 1
        /\ (rows = {} <=> env.last.result = <<>>)
        /\ \A r \in rows :
             (\A o \in rows : r.blockHeight <= o.blockHeight)
               => env.last.result = <<r.blockTimeUnixMs>>

\* What the code does: the same with the block time cut to whole seconds.
FirstSetWholeSeconds ==
  (pc = "eval" /\ env.last.op = "getDateKeyFirstSet") =>
    LET rows == setRowsAtOrBelow(env.last.address, env.last.key, env.block)
    IN  /\ env.last.reads = 1
        /\ (rows = {} <=> env.last.result = <<>>)
        /\ \A r \in rows :
             (\A o \in rows : r.blockHeight <= o.blockHeight)
               => env.last.result = <<(r.blockTimeUnixMs \div 1000) * 1000>>

----------------------------------------------------------------------------
(* getTransformationMatches *)

TransformNS == "wasm_state_transformation"

\* The character * of a nameLike pattern.
Star == 42

\* Transformation names, as texts of character codes: a1 and a2.
TransformNames == {<<97, 49>>, <<97, 50>>}

\* nameLike arguments: an exact name and a pattern.
NameLikes == {<<97, 49>>, <<97, Star>>}

TransformValues == {1, 2}

RECURSIVE likeMatch(_, _)
\* name LIKE nameLike.replace(/\*/g, '%')
likeMatch(name, pattern) ==
  IF pattern = <<>> THEN name = <<>>
  ELSE IF Head(pattern) = Star
       THEN \/ likeMatch(name, Tail(pattern))
            \/ name # <<>> /\ likeMatch(Tail(name), pattern)
  ELSE /\ name # <<>>
       /\ Head(name) = Head(pattern)
       /\ likeMatch(Tail(name), Tail(pattern))

\* A transformation row, with the code id of the joined Contract.
TransformationRow(a, name, h, value) ==
  [contractAddress |-> a, name |-> name, blockHeight |-> h, value |-> value,
   codeId |-> (CHOOSE c \in contracts : c.address = a).codeId]

\* A transformation of a contract written at the next block.
ExportTransformation(a, name, value) ==
  /\ latest < MaxHeight
  /\ findContract(a) # <<>>
  /\ latest' = latest + 1
  /\ transformations' = transformations \cup {TransformationRow(a, name, latest + 1, value)}
  /\ UNCHANGED <<wasmRows, bankVars, pc, env, detVars, serverVars>>

RECURSIVE sortByName(_)
sortByName(rows) ==
  IF rows = {} THEN <<>>
  ELSE LET r == CHOOSE x \in rows :
                  \A o \in rows : o.name = x.name \/ keyLess(x.name, o.name)
       IN  <<r>> \o sortByName(rows \ {r})

\* limit: the first rows of the ordered result; no limit is <<>>.
applyLimit(rows, limit) ==
  IF limit = <<>> \/ Len(rows) <= limit[1] THEN rows
  ELSE SubSeq(rows, 1, limit[1])

\* The value predicate of the query; no predicate is <<>>.
valueMatches(r, where) == where = <<>> \/ r.value = where[1]

\* findAll with DISTINCT ON (name), the name pattern, the value predicate and
\* the block filter in WHERE, ORDER BY name ASC, blockHeight DESC, and LIMIT.
findTransformations(a, nameLike, where, limit, H) ==
  LET matching == {r \in transformations :
                     /\ likeMatch(r.name, nameLike)
                     /\ r.contractAddress = a
                     /\ valueMatches(r, where)
                     /\ blockHeightFilter(r, H)}
      distinct == {r \in matching :
                     \A o \in matching : o.name = r.name => o.blockHeight <= r.blockHeight}
  IN  applyLimit(sortByName(distinct), limit)

RECURSIVE filterCodeId(_, _)
\* transformations.filter(whereCodeId.includes(contract.codeId))
filterCodeId(rows, codeIds) ==
  IF rows = <<>> THEN <<>>
  ELSE IF Head(rows).codeId \in codeIds
       THEN <<Head(rows)>> \o filterCodeId(Tail(rows), codeIds)
       ELSE filterCodeId(Tail(rows), codeIds)

\* whereCodeId: not given is <<>>, a list of code ids is <<set>>.
applyWhereCodeId(rows, whereCodeId) ==
  IF whereCodeId = <<>> THEN rows
  ELSE IF whereCodeId[1] = {} THEN <<>>
  ELSE filterCodeId(rows, whereCodeId[1])

envGetTransformationMatches(e, a, nameLike, where, whereCodeId, limit) ==
  LET dependentKey == getDependentKey(TransformNS, a, nameLike)
      wasTried == tried(e.cache, dependentKey)
      fetched ==
        IF wasTried
        THEN (IF e.cache[dependentKey].isNull THEN <<>> ELSE e.cache[dependentKey].rows)
        ELSE findTransformations(a, nameLike, where, limit, e.block)
      found == applyWhereCodeId(fetched, whereCodeId)
  IN  [e EXCEPT
        !.dependentKeys = @ \cup {[key |-> dependentKey, prefix |-> FALSE]},
        !.cache = IF wasTried THEN @
                  ELSE cachePut(@, dependentKey,
                                IF Len(fetched) > 0 THEN ListEntry(fetched) ELSE NullEntry),
        !.last = [Call("getTransformationMatches", a,
                       [nameLike |-> nameLike, where |-> where,
                        whereCodeId |-> whereCodeId, limit |-> limit]) EXCEPT
                    !.memo = memoState(e.cache, dependentKey),
                    !.reads = IF wasTried THEN 0 ELSE 1,
                    !.result = IF Len(found) = 0 THEN <<>> ELSE <<found>>,
                    !.hook = IF Len(found) = 0 THEN <<>> ELSE <<found>>,
                    !.rows = seqToSet(found),
                    !.data = {dependentKey}]]

getTransformationMatches(a, nameLike, where, whereCodeId, limit) ==
  /\ pc = "eval"
  /\ env' = envGetTransformationMatches(env, a, nameLike, where, whereCodeId, limit)
  /\ UNCHANGED <<storeVars, pc, detVars, otherVars>>

WhereArgs == {<<>>, <<1>>}
WhereCodeIdArgs == {<<>>, <<{}>>, <<{1}>>}
LimitArgs == {<<>>, <<1>>}

NextTransform ==
  \/ \E name \in TransformNames, value \in TransformValues :
       ExportTransformation("A", name, value)
  \/ \E H \in 1..MaxHeight : getEnv(H, NoTarget, FALSE)
  \/ EndEval
  \/ \E nameLike \in NameLikes, where \in WhereArgs,
        whereCodeId \in WhereCodeIdArgs, limit \in LimitArgs :
       getTransformationMatches("A", nameLike, where, whereCodeId, limit)

SpecTransform == InitBank /\ [][NextTransform]_vars

\* The result of the same call in a fresh Environment bound to the same block.
freshTransformationMatches(a, args, H) ==
  envGetTransformationMatches(newEnv(H, NoTarget, FALSE, clock), a, args.nameLike,
                              args.where, args.whereCodeId, args.limit).last.result

\* C13: the result of getTransformationMatches depends only on its arguments
\* and on the store at the target block: it is the result the same call gives
\* in an evaluation that made no earlier call.
C13_MatchesOwnFilters ==
  (pc = "eval" /\ env.last.op = "getTransformationMatches") =>
    env.last.result = freshTransformationMatches(env.last.address, env.last.key, env.block)

\* The part that holds: a call that differs from the earlier calls on the same
\* name in its code id filter only gives the result of a fresh evaluation.
MatchesOwnCodeIdFilter ==
  (/\ pc = "eval" /\ env.last.op = "getTransformationMatches"
   /\ env.last.key.where = <<>> /\ env.last.key.limit = <<>>
   /\ \E d \in DOMAIN env.cache : d[3] = env.last.key.nameLike
   /\ LET rows == env.cache[getDependentKey(TransformNS, env.last.address,
                                           env.last.key.nameLike)]
      IN  rows = (IF findTransformations(env.last.address, env.last.key.nameLike,
                                         <<>>, <<>>, env.block) = <<>>
                  THEN NullEntry
                  ELSE ListEntry(findTransformations(env.last.address,
                                   env.last.key.nameLike, <<>>, <<>>, env.block))))
    => env.last.result = freshTransformationMatches(env.last.address, env.last.key, env.block)

----------------------------------------------------------------------------
(* HTTP compute handler: the request and its validation *)

\* A response: the HTTP status and a tag of the body.
Response(status, body) == [status |-> status, body |-> body]

\* No response yet: the request goes on to the next step of the handler.
Continue == Response(0, "")

\* Parts of a request. An optional query parameter is <<>> when absent and
\* <<v>> when given. A block string is missing (empty), invalid, or a block.
MissingArg == [kind |-> "missing", height |-> 0, timeUnixMs |-> 0]
InvalidArg == [kind |-> "invalid", height |-> 0, timeUnixMs |-> 0]
BlockArg(h, t) == [kind |-> "block", height |-> h, timeUnixMs |-> t]

\* An integer parameter: text that BigInt() parses to n, or that it rejects.
IntArg(n) == [int |-> TRUE, n |-> n]
NotIntArg == [int |-> FALSE, n |-> 0]

\* The time of a range: missing (empty), invalid, or an integer.
MissingTime == [kind |-> "missing", n |-> 0]
InvalidTime == [kind |-> "invalid", n |-> 0]
TimeArg(n) == [kind |-> "int", n |-> n]

FormulaTypeValues == {"contract", "generic", "validator", "account"}

\* Paths, API key, address and formula name (the test key is not requested).
\* The API key is looked at unless the configuration says to ignore it.
validateHead(req) ==
  IF req.type \notin FormulaTypeValues
  THEN Response(400, "type must be one of")
  ELSE IF ~config.ignoreApiKey /\ req.key = "" THEN Response(401, "missing API key")
  ELSE IF ~config.ignoreApiKey /\ req.key # "good" THEN Response(401, "invalid API key")
  ELSE IF req.address = "" THEN Response(400, "missing address")
  ELSE IF req.formula = "" THEN Response(400, "missing formula")
  ELSE Continue

\* If block passed, validate.
validateBlock(req) ==
  IF req.block # <<>> /\ req.block[1].kind # "block"
  THEN Response(400, "invalid block")
  ELSE Continue

\* blockStep is validated inside the branch of a given blocks parameter.
validateBlocks(req) ==
  IF req.blocks = <<>> THEN Continue
  ELSE LET startBlock == req.blocks[1].start
           endBlock == req.blocks[1].end
       IN  IF startBlock.kind = "missing" \/ endBlock.kind = "missing"
           THEN Response(400, "blocks must be a range of two blocks")
           ELSE IF startBlock.kind = "invalid" \/ endBlock.kind = "invalid"
           THEN Response(400, "invalid block")
           ELSE IF \/ startBlock.height >= endBlock.height
                   \/ startBlock.timeUnixMs >= endBlock.timeUnixMs
           THEN Response(400, "the start block must be before the end block")
           ELSE IF /\ req.blockStep # <<>>
                   /\ (~req.blockStep[1].int \/ req.blockStep[1].n < 1)
           THEN Response(400, "block step must be a positive integer")
           ELSE Continue

\* If time passed, validate.
validateTime(req) ==
  IF req.time # <<>> /\ (~req.time[1].int \/ req.time[1].n < 0)
  THEN Response(400, "time must be an integer greater than or equal to zero")
  ELSE Continue

\* The times range without the comparison of its start with its end.
validateTimesUnordered(req) ==
  IF req.times = <<>> THEN Continue
  ELSE LET startTime == req.times[1].start
           endTime == req.times[1].end
       IN  IF startTime.kind = "missing"
           THEN Response(400, "times must be just a start time or both")
           ELSE IF startTime.kind = "invalid" \/ endTime.kind = "invalid"
           THEN Response(400, "times must be integers")
           ELSE IF /\ req.timeStep # <<>>
                   /\ (~req.timeStep[1].int \/ req.timeStep[1].n < 1)
           THEN Response(400, "time step must be a positive integer")
           ELSE Continue

\* timeStep is validated inside the branch of a given times parameter. The
\* end time may be missing.
validateTimes(req) ==
  IF req.times = <<>> THEN Continue
  ELSE LET startTime == req.times[1].start
           endTime == req.times[1].end
       IN  IF startTime.kind = "missing"
           THEN Response(400, "times must be just a start time or both")
           ELSE IF startTime.kind = "invalid" \/ endTime.kind = "invalid"
           THEN Response(400, "times must be integers")
           ELSE IF endTime.kind = "int" /\ startTime.n >= endTime.n
           THEN Response(400, "the start time must be less than the end time")
           ELSE IF /\ req.timeStep # <<>>
                   /\ (~req.timeStep[1].int \/ req.timeStep[1].n < 1)
           THEN Response(400, "time step must be a positive integer")
           ELSE Continue

\* The first check that answers, in the order of the handler.
firstResponse(responses) ==
  IF \E i \in DOMAIN responses : responses[i] # Continue
  THEN responses[CHOOSE i \in DOMAIN responses :
                   /\ responses[i] # Continue
                   /\ \A j \in DOMAIN responses : responses[j] # Continue => i <= j]
  ELSE Continue

validateRequest(req) ==
  firstResponse(<<validateHead(req), validateBlock(req), validateBlocks(req),
                  validateTime(req), validateTimes(req)>>)

\* The parsed parameters of a request that passed validation: the optional
\* block, the optional [start, end] blocks, the steps, the time and the times
\* (with an optional end).
parsedBlock(req) ==
  IF req.block = <<>> THEN <<>>
  ELSE <<[height |-> req.block[1].height, timeUnixMs |-> req.block[1].timeUnixMs]>>

parsedBlocks(req) ==
  IF req.blocks = <<>> THEN <<>>
  ELSE <<[height |-> req.blocks[1].start.height,
          timeUnixMs |-> req.blocks[1].start.timeUnixMs],
         [height |-> req.blocks[1].end.height,
          timeUnixMs |-> req.blocks[1].end.timeUnixMs]>>

\* blockStep stays undefined unless blocks is given, timeStep unless times is.
parsedBlockStep(req) ==
  IF req.blocks # <<>> /\ req.blockStep # <<>> THEN <<req.blockStep[1].n>> ELSE <<>>

parsedTimeStep(req) ==
  IF req.times # <<>> /\ req.timeStep # <<>> THEN <<req.timeStep[1].n>> ELSE <<>>

parsedTime(req) == IF req.time = <<>> THEN <<>> ELSE <<req.time[1].n>>

\* times: <<start>> or <<start, end>>.
parsedTimes(req) ==
  IF req.times = <<>> THEN <<>>
  ELSE IF req.times[1].end.kind = "int"
       THEN <<req.times[1].start.n, req.times[1].end.n>>
       ELSE <<req.times[1].start.n>>

----------------------------------------------------------------------------
(* Formulas, evaluation over one block and over a range *)

\* Block rows: one per exported height, with the time of the block.
blockAt(h) == [height |-> h, timeUnixMs |-> BlockTimeUnixMs(h)]

\* Block.getForTime: the most recent block at or before the time, if any.
getForTime(t) ==
  LET hs == {h \in 1..latest : BlockTimeUnixMs(h) <= t}
  IN  IF hs = {} THEN <<>>
      ELSE <<blockAt(CHOOSE h \in hs : \A o \in hs : o <= h)>>

\* Block.getFirst
getFirst == IF latest >= 1 THEN <<blockAt(1)>> ELSE <<>>

\* The key a contract formula reads, and the denom a balance formula reads.
ItemKey == << MapName, <<1>> >>
BalanceDenom == <<1>>

TypedFormula(type, name, codeIdsKeys, dynamic) ==
  [type |-> type, name |-> name, codeIdsKeys |-> codeIdsKeys, dynamic |-> dynamic]

\* The registered formulas.
Formulas ==
  {TypedFormula("contract", "item", {}, FALSE),
   TypedFormula("contract", "daoItem", {"dao"}, FALSE),
   TypedFormula("contract", "strictItem", {}, FALSE),
   TypedFormula("account", "balance", {}, FALSE),
   TypedFormula("validator", "power", {}, FALSE),
   TypedFormula("generic", "now", {}, TRUE)}

\* getTypedFormula: a list of zero or one formula (none: 'Formula not found').
getTypedFormula(type, name) ==
  IF \E f \in Formulas : f.type = type /\ f.name = name
  THEN <<CHOOSE f \in Formulas : f.type = type /\ f.name = name>>
  ELSE <<>>

\* A formula that returns what its one getter call returned.
valueReturned(e1) == [env |-> e1, value |-> e1.last.result, failed |-> FALSE]

\* A formula that returns what its one getter call returned and throws when
\* it returned nothing.
valueRequired(e1) ==
  [env |-> e1, value |-> e1.last.result, failed |-> e1.last.result = <<>>]

\* A formula that returns the balance its one getter call returned, as a number.
numberReturned(e1) ==
  [env |-> e1,
   value |-> IF e1.last.result = <<>> THEN <<>>
             ELSE <<JSONParse(e1.last.result[1])>>,
   failed |-> FALSE]

\* The compute function of a formula run in Environment e: the Environment
\* after its getter calls, the value it returns (<<>>: undefined) and whether
\* it threw instead. The balance formula returns the balance as a number; the
\* strictItem formula throws when the item is not set.
runFormula(f, e, address) ==
  IF f.dynamic THEN [env |-> e, value |-> <<e.date>>, failed |-> FALSE]
  ELSE IF f.name = "balance"
  THEN numberReturned(envGetBalance(e, address, BalanceDenom))
  ELSE IF f.name = "strictItem"
  THEN valueRequired(envGet(e, address, ItemKey))
  ELSE valueReturned(envGet(e, address, ItemKey))

\* The rows of the store as (blockHeight, dependent key) pairs.
dependableEvents ==
  {[blockHeight |-> r.blockHeight,
    key |-> getDependentKey(WasmNS, r.contractAddress, r.key)] : r \in wasmRows}
  \cup {[blockHeight |-> r.blockHeight,
         key |-> getDependentKey(BankStateNS, r.address, r.denom)] : r \in bankEvents}
  \cup {[blockHeight |-> r.blockHeight,
         key |-> getDependentKey(BankBalanceNS, r.address, <<>>)] : r \in bankBalances}

\* Heights in (after, upTo] at which a row matching a recorded dependency exists.
changesWithin(deps, after, upTo) ==
  {ev.blockHeight : ev \in {x \in dependableEvents :
     /\ x.blockHeight > after
     /\ x.blockHeight <= upTo
     /\ \E dep \in deps : depMatches(dep, x.key)}}

minOf(S) == CHOOSE x \in S : \A y \in S : x <= y

\* The largest height from the block on with no matching row above the block,
\* at most upTo.
validUpTo(deps, height, upTo) ==
  IF changesWithin(deps, height, upTo) = {} THEN upTo
  ELSE minOf(changesWithin(deps, height, upTo)) - 1

ComputationOutput(block, result, valid) ==
  [block |-> block, value |-> result.value,
   dependentKeys |-> result.env.dependentKeys,
   latestBlockHeightValid |-> valid, failed |-> result.failed]

\* Whether the formula threw at one of the blocks.
failedIn(outputs) == \E i \in DOMAIN outputs : outputs[i].failed

\* The output of a run of the formula at the block, valid up to the next row
\* that matches a dependency the run recorded, at most upTo.
outputValidUpTo(block, result, upTo) ==
  ComputationOutput(block, result,
    validUpTo(result.env.dependentKeys, block.height, upTo))

\* compute: the formula run at the block, in an Environment that holds the
\* contract memo the caller passes; valid up to the next matching row, or up
\* to the latest block of the indexer.
compute(f, address, block, contractsMemo, now) ==
  outputValidUpTo(block,
    runFormula(f, [newEnv(block.height, NoTarget, FALSE, now)
                     EXCEPT !.contracts = contractsMemo], address),
    IF latest > block.height THEN latest ELSE block.height)

RECURSIVE computeRangeFrom(_, _, _, _)
RECURSIVE computeRangeAfter(_, _, _, _)
\* The cursor loop of computeRange: evaluate at the cursor, then jump to the
\* next height at which a recorded dependency changes, up to blockEnd.
computeRangeFrom(f, address, block, blockEnd) ==
  computeRangeAfter(f, address, blockEnd,
    outputValidUpTo(block,
      runFormula(f, newEnv(block.height, NoTarget, TRUE, 0), address),
      blockEnd.height))

\* The loop after the evaluation at the cursor: it ends where the formula
\* throws.
computeRangeAfter(f, address, blockEnd, piece) ==
  IF piece.failed \/ piece.latestBlockHeightValid >= blockEnd.height THEN <<piece>>
  ELSE <<piece>> \o computeRangeFrom(f, address,
                      blockAt(piece.latestBlockHeightValid + 1), blockEnd)

computeRange(f, address, blockStart, blockEnd) ==
  computeRangeFrom(f, address, blockStart, blockEnd)

----------------------------------------------------------------------------
(* Computation records and credits *)

\* JSON.stringify of a formula value; undefined is stored as null (<<>>).
outputOf(value) == IF value = <<>> THEN <<>> ELSE <<ToString(value[1])>>

\* output && JSON.parse(output)
valueOfOutput(output) == IF output = <<>> THEN <<>> ELSE <<JSONParse(output[1])>>

\* The names the formula arguments of a request are taken from, in key order.
ArgKeys == <<"a", "b">>

\* One argument of the query string.
Arg(key, value) == [key |-> key, value |-> value]

RECURSIVE joinArgs(_)
\* "key":"value" members, separated by commas, in the order of the list.
joinArgs(args) ==
  IF args = <<>> THEN ""
  ELSE "\"" \o args[1].key \o "\":\"" \o args[1].value \o "\""
       \o (IF Len(args) = 1 THEN "" ELSE "," \o joinArgs(Tail(args)))

\* JSON.stringify(args): the members in the order the query string gave them.
JSONStringify(args) == "{" \o joinArgs(args) \o "}"

keyRank(key) == CHOOSE i \in DOMAIN ArgKeys : ArgKeys[i] = key

RECURSIVE sortByArgKey(_)
sortByArgKey(args) ==
  IF args = {} THEN <<>>
  ELSE LET first == CHOOSE x \in args : \A y \in args : keyRank(x.key) <= keyRank(y.key)
       IN  <<first>> \o sortByArgKey(args \ {first})

\* The stable, key-sorted JSON encoding of the arguments.
canonicalArgs(args) == JSONStringify(sortByArgKey(seqToSet(args)))

\* JSON.stringify(args) of a request without formula arguments.
NoArgs == "{}"

ComputationRow(address, formula, args, out) ==
  [targetAddress |-> address, formula |-> formula, args |-> args,
   blockHeight |-> out.block.height, blockTimeUnixMs |-> out.block.timeUnixMs,
   output |-> outputOf(out.value), dependentKeys |-> out.dependentKeys,
   latestBlockHeightValid |-> out.latestBlockHeightValid]

\* Computation.createFromComputationOutputs: one row per output.
createFromComputationOutputs(address, f, args, outputs) ==
  [i \in DOMAIN outputs |->
     ComputationRow(address, f.name, canonicalArgs(args), outputs[i])]

\* updateValidityUpToBlockHeight: if no row of a recorded dependency lies in
\* (latestBlockHeightValid, upTo], the record is valid up to upTo.
updateValidityUpToBlockHeight(c, upTo) ==
  IF changesWithin(c.dependentKeys, c.latestBlockHeightValid, upTo) = {}
  THEN [ok |-> TRUE, row |-> [c EXCEPT !.latestBlockHeightValid = upTo]]
  ELSE [ok |-> FALSE, row |-> c]

\* The call of updateValidityUpToBlockHeight as the trace keeps it.
UpdateCall(c, upTo) ==
  [before |-> c, upTo |-> upTo,
   ok |-> updateValidityUpToBlockHeight(c, upTo).ok,
   after |-> updateValidityUpToBlockHeight(c, upTo).row]

\* AccountKeyCredit.creditsForBlockInterval: one credit per started group of
\* BlocksPerCredit blocks.
BlocksPerCredit == 2

creditsForBlockInterval(interval) ==
  (interval + BlocksPerCredit - 1) \div BlocksPerCredit

\* Find credit that has enough remaining: infinite credit, or enough to cover
\* the requested amount.
creditsWithEnough(amount) ==
  {c \in credits : c.amount = -1 \/ c.amount >= c.used + amount}

\* Use lowest amount first.
firstCredit(cs) ==
  CHOOSE c \in cs : \A o \in cs : c.amount < o.amount \/ (c.amount = o.amount /\ c.id <= o.id)

\* useCredit: whether credit was found and used, and the rows afterwards.
useCredit(amount) ==
  IF creditsWithEnough(amount) = {} THEN [ok |-> FALSE, credits |-> credits]
  ELSE LET credit == firstCredit(creditsWithEnough(amount))
       IN  [ok |-> TRUE,
            credits |-> (credits \ {credit})
                          \cup {[credit EXCEPT !.used = @ + amount, !.hits = @ + 1]}]

\* accountKey?.useCredit(amount): without an account key (the API key is
\* ignored) no credit is needed and none is used.
useCreditOfKey(amount) ==
  IF config.ignoreApiKey THEN [ok |-> TRUE, credits |-> credits] ELSE useCredit(amount)

\* The amounts passed to useCredit.
chargedOfKey(amount) == IF config.ignoreApiKey THEN <<>> ELSE <<amount>>

----------------------------------------------------------------------------
(* Range assembler *)

\* One entry of a range response: the height or time it answers for, the
\* value, and the block of the piece the value comes from.
RangeEntry(at, piece) ==
  [at |-> at, value |-> piece.value, blockHeight |-> piece.block.height,
   blockTimeUnixMs |-> piece.block.timeUnixMs]

\* The number of steps needed to go from start to end: ceil((end - start) / step).
stepsBetween(start, end, step) == (end - start + step - 1) \div step

\* The sampling grid: start, start + step, ..., and end as the last sample.
sampleGrid(start, end, step) ==
  [i \in 1..(stepsBetween(start, end, step) + 1) |->
     IF start + (i - 1) * step < end THEN start + (i - 1) * step ELSE end]

\* The outputs are sorted ascending by block: the piece that holds at a height
\* is the last one that starts at or below it (the first one if none does).
pieceAtHeight(outputs, h) ==
  LET below == {i \in DOMAIN outputs : outputs[i].block.height <= h}
  IN  IF below = {} THEN outputs[1]
      ELSE outputs[CHOOSE i \in below : \A j \in below : j <= i]

pieceAtTime(outputs, t) ==
  LET below == {i \in DOMAIN outputs : outputs[i].block.timeUnixMs <= t}
  IN  IF below = {} THEN outputs[1]
      ELSE outputs[CHOOSE i \in below : \A j \in below : j <= i]

\* processComputationRange: the series sampled on the block grid or on the
\* time grid, or one entry per piece when no step is given.
processComputationRange(outputs, blockStep, timeStep, blocks, times) ==
  IF outputs = <<>> THEN <<>>
  ELSE IF blocks # <<>> /\ blockStep # <<>>
  THEN LET grid == sampleGrid(blocks[1].height, blocks[2].height, blockStep[1])
       IN  [i \in DOMAIN grid |-> RangeEntry(grid[i], pieceAtHeight(outputs, grid[i]))]
  ELSE IF times # <<>> /\ timeStep # <<>>
  THEN LET endTime == IF Len(times) = 2 THEN times[2] ELSE blocks[2].timeUnixMs
           grid == sampleGrid(times[1], endTime, timeStep[1])
       IN  [i \in DOMAIN grid |-> RangeEntry(grid[i], pieceAtTime(outputs, grid[i]))]
  ELSE [i \in DOMAIN outputs |-> RangeEntry(outputs[i].block.height, outputs[i])]

----------------------------------------------------------------------------
(* HTTP compute handler: lookup, range and single block *)

respond(o, status, body) == [o EXCEPT !.status = status, !.body = body]

\* The checks of the target without the code id filter of the formula.
targetResponseNoFilter(f, address) ==
  IF f.type = "contract"
  THEN IF findContract(address) = <<>> THEN Response(404, "contract not found")
       ELSE Continue
  ELSE IF f.type = "validator" /\ address \notin validators
  THEN Response(404, "validator not found")
  ELSE Continue

\* The contract or validator a typed formula is asked about must be stored,
\* and the contract must satisfy the code id filter of the formula.
targetResponse(f, address) ==
  IF f.type = "contract"
  THEN IF findContract(address) = <<>> THEN Response(404, "contract not found")
       ELSE IF /\ f.codeIdsKeys # {}
               /\ findContract(address)[1].codeId \notin findWasmCodeIdsByKeys(f.codeIdsKeys)
       THEN Response(405, "the formula does not apply to contract")
       ELSE Continue
  ELSE IF f.type = "validator" /\ address \notin validators
  THEN Response(404, "validator not found")
  ELSE Continue

\* Dynamic formulas computed over a range like any other.
dynamicResponseNever(f, req) == Continue

\* A dynamic formula cannot be computed over a range.
dynamicResponse(f, req) ==
  IF f.dynamic /\ (parsedBlocks(req) # <<>> \/ parsedTimes(req) # <<>>)
  THEN Response(400, "cannot compute dynamic formula over a range")
  ELSE Continue

\* If time passed (and not zero), the block that correlates with that time.
resolveBlock(req) ==
  IF parsedTime(req) # <<>> /\ parsedTime(req)[1] # 0
  THEN getForTime(parsedTime(req)[1])
  ELSE parsedBlock(req)

\* Negative times are relative to the current time.
resolveTimes(times, now) ==
  [i \in DOMAIN times |->
     IF times[i] < 0 THEN times[i] + now ELSE times[i]]

\* If times passed, the blocks that correlate with those times: the first
\* block if none exists before the start time, the latest block of the held
\* State if no end time is given (or it is zero).
resolveBlocks(blocks, times) ==
  IF times = <<>> THEN blocks
  ELSE LET startBlock ==
             IF getForTime(times[1]) # <<>> THEN getForTime(times[1]) ELSE getFirst
           endBlock ==
             IF Len(times) = 2 /\ times[2] # 0 THEN getForTime(times[2])
             ELSE <<blockAt(state)>>
       IN  IF startBlock # <<>> /\ endBlock # <<>>
           THEN <<startBlock[1], endBlock[1]>>
           ELSE blocks

\* The end block as requested.
capEndNever(blocks) == blocks

\* Cap end block at latest block.
capEnd(blocks) ==
  IF blocks[2].height > state THEN <<blocks[1], blockAt(state)>> ELSE blocks

\* Computations of the same target, formula and arguments.
computationWhere(address, f, args) ==
  {c \in computations :
     c.targetAddress = address /\ c.formula = f.name /\ c.args = JSONStringify(args)}

RECURSIVE sortByBlockHeight(_)
sortByBlockHeight(rows) ==
  IF rows = {} THEN <<>>
  ELSE LET r == CHOOSE x \in rows : \A o \in rows : x.blockHeight <= o.blockHeight
       IN  <<r>> \o sortByBlockHeight(rows \ {r})

\* The existing start computation followed by the rest, if a start exists.
existingComputations(address, f, args, blocks) ==
  LET existingStartComputation ==
        findOneDesc({c \in computationWhere(address, f, args) :
                       c.blockHeight <= blocks[1].height})
      existingRestComputations ==
        sortByBlockHeight({c \in computationWhere(address, f, args) :
                             /\ c.blockHeight > blocks[1].height
                             /\ c.blockHeight <= blocks[2].height})
  IN  IF existingStartComputation = <<>> THEN <<>>
      ELSE existingStartComputation \o existingRestComputations

\* The chain taken as covering the range when no computation is valid beyond
\* the block before the next one.
isRangeCoveredLoosely(chain) ==
  \A i \in DOMAIN chain :
    i = Len(chain) \/ chain[i].latestBlockHeightValid <= chain[i + 1].blockHeight - 1

\* The chain taken as covering the range whatever its validities are.
isRangeCoveredAlways(chain) == chain = chain

\* Each computation is valid up until the block just before the next one.
isRangeCoveredBeforeEnd(chain) ==
  \A i \in DOMAIN chain :
    i = Len(chain) \/ chain[i].latestBlockHeightValid = chain[i + 1].blockHeight - 1

lastOf(s) == s[Len(s)]

computationBlock(c) == [height |-> c.blockHeight, timeUnixMs |-> c.blockTimeUnixMs]

\* { value: output && JSON.parse(output), block }
storedOutputs(chain) ==
  [i \in DOMAIN chain |->
     [value |-> valueOfOutput(chain[i].output), block |-> computationBlock(chain[i])]]

heightsOf(outputs) == [i \in DOMAIN outputs |-> outputs[i].block.height]

\* The range request over the capped blocks, given the stored chain, what
\* computeRange returns from the last computation of the chain on (fromLast)
\* and what it returns for the whole range (whole): the use of credit, the
\* validity updates, the computations created and the response. A formula
\* that throws inside computeRange ends the request with 400. writes lists
\* the Computation table after each write, in order.
rangeOver(o, f, address, blocks, blockStep, timeStep, times, chain, fromLast, whole) ==
  LET amount == creditsForBlockInterval(blocks[2].height - blocks[1].height + 1)
      paid == useCreditOfKey(amount)
      o1 == [o EXCEPT !.blocks = blocks, !.charged = chargedOfKey(amount)]
      noStep == blockStep = <<>> /\ timeStep = <<>>
      covered == chain # <<>> /\ isRangeCoveredBeforeEnd(chain)
      first == UpdateCall(lastOf(chain), blocks[2].height)
      extend == covered /\ ~first.ok
      missingFailed == extend /\ failedIn(fromLast)
      missing == IF fromLast = <<>> THEN <<>> ELSE Tail(fromLast)
      created == createFromComputationOutputs(address, f, o.req.args, missing)
      longer == chain \o created
      second == UpdateCall(lastOf(longer), blocks[2].height)
      entireRangeValid == covered /\ (IF first.ok THEN TRUE ELSE second.ok)
      wholeFailed == ~entireRangeValid /\ failedIn(whole)
      afterFirst ==
        IF covered
        THEN (computations \ {lastOf(chain)}) \cup {first.after}
        ELSE computations
      afterCreated == afterFirst \cup seqToSet(created)
      afterSecond ==
        IF extend
        THEN (afterCreated \ {lastOf(longer)}) \cup {second.after}
        ELSE afterFirst
      o2 == [o1 EXCEPT
               !.queries = IF ~noStep THEN 0 ELSE IF chain = <<>> THEN 1 ELSE 2,
               !.found = chain]
      o3 == [o2 EXCEPT
               !.updates = IF ~covered THEN <<>>
                           ELSE IF first.ok THEN <<first>> ELSE <<first, second>>,
               !.created = IF extend THEN created ELSE <<>>,
               !.evaluated = (IF extend
                              THEN <<lastOf(chain).blockHeight>> \o heightsOf(missing)
                              ELSE <<>>)
                             \o (IF entireRangeValid THEN <<>> ELSE heightsOf(whole))]
      rangeComputations ==
        IF entireRangeValid
        THEN storedOutputs(IF first.ok THEN chain ELSE longer)
        ELSE whole
  IN  IF ~paid.ok
      THEN [outcome |-> respond(o1, 402, "insufficient credits"),
            computations |-> computations, credits |-> credits, writes |-> <<>>]
      ELSE IF missingFailed
      THEN [outcome |-> [respond(o2, 400, "formula error") EXCEPT
                           !.updates = <<first>>,
                           !.evaluated = heightsOf(fromLast)],
            computations |-> afterFirst, credits |-> paid.credits,
            writes |-> <<afterFirst>>]
      ELSE IF wholeFailed
      THEN [outcome |-> respond(o3, 400, "formula error"),
            computations |-> afterSecond, credits |-> paid.credits,
            writes |-> IF ~covered THEN <<>>
                       ELSE IF first.ok THEN <<afterFirst>>
                       ELSE <<afterFirst, afterCreated, afterSecond>>]
      ELSE [outcome |->
              [respond(o3, 200, "range") EXCEPT
                 !.pieces = IF entireRangeValid THEN <<>> ELSE whole,
                 !.value = processComputationRange(rangeComputations, blockStep,
                                                   timeStep, blocks, times)],
            computations |-> afterSecond, credits |-> paid.credits,
            writes |-> IF ~covered THEN <<>>
                       ELSE IF first.ok THEN <<afterFirst>>
                       ELSE <<afterFirst, afterCreated, afterSecond>>]

\* The range request that uses the stored computations whether or not a step
\* was given.
rangeRequestStored(o, f, address, requested, blockStep, timeStep, times) ==
  LET blocks == capEnd(requested)
      chain == existingComputations(address, f, o.req.args, blocks)
  IN  rangeOver(o, f, address, blocks, <<>>, <<>>, times, chain,
                IF chain = <<>> THEN <<>>
                ELSE computeRange(f, address, computationBlock(lastOf(chain)),
                                  blocks[2]),
                computeRange(f, address, blocks[1], blocks[2]))

\* The outcome of a range request and the tables after it, from the use of
\* credit on. Without a step the stored computations are used when they chain
\* up to the end block, after computing and storing what is missing at their
\* end; otherwise the whole range is computed.
rangeRequest(o, f, address, requested, blockStep, timeStep, times) ==
  LET blocks == capEnd(requested)
      chain == IF blockStep = <<>> /\ timeStep = <<>>
               THEN existingComputations(address, f, o.req.args, blocks)
               ELSE <<>>
  IN  rangeOver(o, f, address, blocks, blockStep, timeStep, times, chain,
                IF chain = <<>> THEN <<>>
                ELSE computeRange(f, address, computationBlock(lastOf(chain)),
                                  blocks[2]),
                computeRange(f, address, blocks[1], blocks[2]))

\* A request for a single block answered from the most recent stored
\* computation when it is valid up to the block, and computed otherwise.
singleRequestStored(o, f, address, block, now) ==
  LET at == IF block # <<>> THEN block[1] ELSE blockAt(state)
      existing == findOneDesc({c \in computationWhere(address, f, o.req.args) :
                                 c.blockHeight <= at.height})
      update == UpdateCall(existing[1], at.height)
      out == compute(f, address, at,
                     handlerContracts(IF f.type = "contract" THEN address ELSE NoTarget),
                     now)
  IN  IF existing # <<>> /\ update.ok
      THEN [outcome |-> [respond(o, 200, "value") EXCEPT
                           !.value = valueOfOutput(existing[1].output),
                           !.queries = 1, !.found = existing, !.updates = <<update>>],
            computations |-> (computations \ {existing[1]}) \cup {update.after},
            credits |-> credits]
      ELSE [outcome |-> [respond(o, 200, "value") EXCEPT
                           !.value = out.value, !.evaluated = <<at.height>>],
            computations |-> computations, credits |-> credits]

\* A request for a single block that stores what it computed for future
\* queries, valid up to the block.
singleRequestSaved(o, f, address, block, now) ==
  LET at == IF block # <<>> THEN block[1] ELSE blockAt(state)
      saved == createFromComputationOutputs(address, f, o.req.args,
                 <<[compute(f, address, at,
                      handlerContracts(IF f.type = "contract" THEN address ELSE NoTarget),
                      now) EXCEPT !.latestBlockHeightValid = at.height]>>)
  IN  [outcome |-> [respond(o, 200, "value") EXCEPT
                      !.value = valueOfOutput(saved[1].output),
                      !.evaluated = <<at.height>>, !.created = saved],
       computations |-> computations \cup seqToSet(saved), credits |-> credits]

\* The outcome of a request for a single block: the formula is computed at
\* the block, or at the latest block of the held State, while credit is used.
singleRequest(o, f, address, block, now) ==
  LET at == IF block # <<>> THEN block[1] ELSE blockAt(state)
      paid == useCreditOfKey(1)
      out == compute(f, address, at,
                     handlerContracts(IF f.type = "contract" THEN address ELSE NoTarget),
                     now)
      o1 == [o EXCEPT !.charged = chargedOfKey(1), !.evaluated = <<at.height>>]
  IN  IF ~paid.ok
      THEN [outcome |-> respond(o1, 402, "insufficient credits"),
            computations |-> computations, credits |-> credits, writes |-> <<>>]
      ELSE IF out.failed
      THEN [outcome |-> respond(o1, 400, "formula error"),
            computations |-> computations, credits |-> paid.credits, writes |-> <<>>]
      ELSE [outcome |-> [respond(o1, 200, "value") EXCEPT !.value = out.value],
            computations |-> computations, credits |-> paid.credits, writes |-> <<>>]

rejected(o, response) ==
  [outcome |-> respond(o, response.status, response.body),
   computations |-> computations, credits |-> credits, writes |-> <<>>]

\* The handler from the formula lookup on.
computeRequest(o, req, now) ==
  LET typedFormula == getTypedFormula(req.type, req.formula)
      f == typedFormula[1]
      o1 == [o EXCEPT !.lookedUp = TRUE]
      times == resolveTimes(parsedTimes(req), now)
      blocks == resolveBlocks(parsedBlocks(req), times)
  IN  IF typedFormula = <<>> THEN rejected(o1, Response(404, "formula not found"))
      ELSE IF targetResponse(f, req.address) # Continue
      THEN rejected(o1, targetResponse(f, req.address))
      ELSE IF dynamicResponse(f, req) # Continue
      THEN rejected(o1, dynamicResponse(f, req))
      ELSE IF blocks # <<>>
      THEN rangeRequest(o1, f, req.address, blocks, parsedBlockStep(req),
                        parsedTimeStep(req), times)
      ELSE singleRequest(o1, f, req.address, resolveBlock(req), now)

\* The whole handler.
handle(req, now) ==
  IF validateRequest(req) # Continue
  THEN rejected(Outcome(req), validateRequest(req))
  ELSE computeRequest(Outcome(req), req, now)

computer(req) ==
  /\ pc = "idle"
  /\ \E handled \in {handle(req, clock)} :
       /\ \A c \in handled.credits : c.hits <= MaxHits /\ c.used >= -MaxCredit
       /\ resp' = handled.outcome
       /\ computations' = handled.computations
       /\ credits' = handled.credits
  /\ UNCHANGED <<storeVars, pc, env, detVars, transformations, validators, config, state,
                 runs, updater, limitVars>>

\* The handler on a range request it would have served, when the database
\* fails after k of its writes to the Computation table (k = 0: before the
\* first): the error is caught and answered with 500, and the writes made
\* stay.
computerInterrupted(req) ==
  /\ pc = "idle"
  /\ \E handled \in {handle(req, clock)} :
       /\ handled.outcome.status = 200
       /\ handled.outcome.blocks # <<>>
       /\ \A c \in handled.credits : c.hits <= MaxHits /\ c.used >= -MaxCredit
       /\ \E k \in 0..Len(handled.writes) :
            /\ resp' = [respond(handled.outcome, 500, "internal error") EXCEPT
                          !.value = <<>>, !.pieces = <<>>,
                          !.updates = IF k = 0 THEN <<>>
                                      ELSE IF k < 3 THEN <<@[1]>> ELSE @,
                          !.created = IF k < 2 THEN <<>> ELSE @]
            /\ computations' = IF k = 0 THEN computations ELSE handled.writes[k]
       /\ credits' = handled.credits
  /\ UNCHANGED <<storeVars, pc, env, detVars, transformations, validators, config, state,
                 runs, updater, limitVars>>

\* The handler reloads the State it holds every second.
updateState ==
  /\ state # latest
  /\ state' = latest
  /\ UNCHANGED <<storeVars, pc, env, detVars, transformations, validators,
                 computations, credits, config, resp, runs, updater, limitVars>>

----------------------------------------------------------------------------
(* Requests *)

Request(key, type, address, formula) ==
  [key |-> key, type |-> type, address |-> address, formula |-> formula,
   block |-> <<>>, blocks |-> <<>>, blockStep |-> <<>>,
   time |-> <<>>, times |-> <<>>, timeStep |-> <<>>, args |-> <<>>]

BlocksRange(start, end) == [start |-> start, end |-> end]
TimesRange(start, end) == [start |-> start, end |-> end]

\* The (type, address, formula) paths requested: each registered formula on a
\* stored target, on a target that is not stored or that its filter excludes,
\* unregistered names, a type that is none, an empty address and an empty
\* formula name.
Paths ==
  {<<"contract", "A", "item">>, <<"contract", "A", "daoItem">>,
   <<"contract", "B", "daoItem">>, <<"contract", "X", "item">>,
   <<"validator", "V", "power">>, <<"validator", "X", "power">>,
   <<"account", "W", "balance">>, <<"generic", "A", "now">>,
   <<"contract", "A", "nope">>, <<"generic", "A", "item">>,
   <<"bogus", "A", "item">>, <<"contract", "", "item">>,
   <<"contract", "A", "">>}

ItemPath == <<"contract", "A", "item">>

WholeBlocks ==
  BlocksRange(BlockArg(1, BlockTimeUnixMs(1)), BlockArg(MaxHeight, BlockTimeUnixMs(MaxHeight)))

WholeTimes == TimesRange(TimeArg(BlockTimeUnixMs(1)), TimeArg(BlockTimeUnixMs(MaxHeight)))

BlocksArgs ==
  {<<>>,
   <<WholeBlocks>>,
   <<BlocksRange(BlockArg(2, BlockTimeUnixMs(2)), BlockArg(2, BlockTimeUnixMs(3)))>>,
   <<BlocksRange(BlockArg(1, BlockTimeUnixMs(2)), BlockArg(2, BlockTimeUnixMs(2)))>>,
   <<BlocksRange(MissingArg, BlockArg(2, BlockTimeUnixMs(2)))>>,
   <<BlocksRange(BlockArg(1, BlockTimeUnixMs(1)), MissingArg)>>,
   <<BlocksRange(InvalidArg, BlockArg(2, BlockTimeUnixMs(2)))>>}

BlockStepArgs == {<<>>, <<IntArg(1)>>, <<IntArg(0)>>, <<NotIntArg>>}

TimesArgs ==
  {<<>>,
   <<WholeTimes>>,
   <<TimesRange(TimeArg(BlockTimeUnixMs(1)), MissingTime)>>,
   <<TimesRange(TimeArg(BlockTimeUnixMs(2)), TimeArg(BlockTimeUnixMs(2)))>>,
   <<TimesRange(MissingTime, TimeArg(BlockTimeUnixMs(2)))>>,
   <<TimesRange(TimeArg(BlockTimeUnixMs(1)), InvalidTime)>>}

TimeStepArgs ==
  {<<>>, <<IntArg(BlockTimeUnixMs(1))>>, <<IntArg(0)>>, <<NotIntArg>>}

TimeArgs == {<<>>, <<IntArg(BlockTimeUnixMs(2))>>, <<IntArg(-1)>>, <<NotIntArg>>}

BlockArgs == {<<>>, <<BlockArg(1, BlockTimeUnixMs(1))>>, <<InvalidArg>>}

requestOf(key, path) == Request(key, path[1], path[2], path[3])

\* Requests that vary the parameters: a blocks range and a block step, a times
\* range and a time step, a time and a block, on a registered formula of a
\* stored contract; then a malformed range without a valid API key, and on an
\* unregistered formula.
ValidationRequests ==
  {[requestOf("good", ItemPath) EXCEPT !.blocks = blocks, !.blockStep = blockStep] :
     blocks \in BlocksArgs, blockStep \in BlockStepArgs}
  \cup {[requestOf("good", ItemPath) EXCEPT !.times = times, !.timeStep = timeStep] :
          times \in TimesArgs, timeStep \in TimeStepArgs}
  \cup {[requestOf("good", ItemPath) EXCEPT !.time = time, !.block = block] :
          time \in TimeArgs, block \in BlockArgs}
  \cup {[requestOf(key, path) EXCEPT !.blocks = blocks] :
          key \in {"", "bad", "good"},
          path \in {ItemPath, <<"contract", "A", "nope">>},
          blocks \in {<<BlocksRange(BlockArg(2, BlockTimeUnixMs(2)), BlockArg(2, BlockTimeUnixMs(3)))>>}}

\* Requests of every path: for a single block, over a blocks range, over a
\* times range and over a stepped blocks range.
LookupRequests ==
  {requestOf("good", path) : path \in Paths}
  \cup {[requestOf("good", path) EXCEPT !.blocks = <<WholeBlocks>>] : path \in Paths}
  \cup {[requestOf("good", path) EXCEPT !.times = <<WholeTimes>>] : path \in Paths}
  \cup {[requestOf("good", path) EXCEPT !.blocks = <<WholeBlocks>>,
                                        !.blockStep = <<IntArg(1)>>] : path \in Paths}

\* Contracts "A" and "B" of different code ids, a validator "V", and one
\* credit row of MaxCredit credits.
InitRequest ==
  /\ latest = 0
  /\ wasmRows = {}
  /\ bankBalances = {}
  /\ bankEvents = {}
  /\ txEvents = {}
  /\ contracts = {ContractRow("A", 1), ContractRow("B", 2)}
  /\ bankWritten = FALSE
  /\ pc = "idle"
  /\ env = NoEnv
  /\ twin = NoEnv
  /\ clock = 0
  /\ transformations = {}
  /\ validators = {"V"}
  /\ computations = {}
  /\ credits = {CreditRow(1, MaxCredit)}
  /\ config = [ignoreApiKey |-> FALSE]
  /\ state = 0
  /\ resp = Outcome(NoRequest)
  /\ runs = NoRuns
  /\ updater = NoUpdater
  /\ testRateLimit = NoRateLimit
  /\ passed = <<>>

NextValidation ==
  \/ ExportWasm("A", ItemKey, FALSE)
  \/ updateState
  \/ \E req \in ValidationRequests : computer(req)

SpecValidation == InitRequest /\ [][NextValidation]_vars

NextLookup ==
  \/ ExportWasm("A", ItemKey, FALSE)
  \/ updateState
  \/ \E req \in LookupRequests : computer(req)

SpecLookup == InitRequest /\ [][NextLookup]_vars

----------------------------------------------------------------------------
(* Requests that are refused *)

\* Whether the handler has answered a request.
answered == resp.status # 0

\* The traces of a request that made the handler evaluate nothing, find or
\* store no Computation and use no credit.
nothingDone(o) ==
  /\ o.evaluated = <<>> /\ o.pieces = <<>>
  /\ o.queries = 0 /\ o.found = <<>> /\ o.created = <<>> /\ o.updates = <<>>
  /\ o.charged = <<>>

\* Whether a request names a registered dynamic formula and supplies blocks
\* or times.
dynamicOverRange(req) ==
  /\ getTypedFormula(req.type, req.formula) # <<>>
  /\ getTypedFormula(req.type, req.formula)[1].dynamic
  /\ (req.blocks # <<>> \/ req.times # <<>>)

\* C14: a request for a dynamic formula that supplies blocks or times is
\* answered with a user error (a 4xx status); the handler evaluates no
\* formula, finds, creates and updates no Computation and uses no credit, and
\* the Computation and credit tables are left as they were.
C14_DynamicOverRange ==
  [][(resp' # resp /\ dynamicOverRange(resp'.req)) =>
       /\ resp'.status \in 400..499
       /\ nothingDone(resp')
       /\ computations' = computations
       /\ credits' = credits]_vars

\* A dynamic formula was requested over a range of exported blocks the held
\* State covers, by a caller with credit left, and refused.
C14_Witness ==
  /\ answered
  /\ dynamicOverRange(resp.req)
  /\ resp.status = 400
  /\ state >= 2
  /\ creditsWithEnough(1) # {}

\* Whether a step parameter is given and is not a positive integer.
badStep(step) == step # <<>> /\ (~step[1].int \/ step[1].n < 1)

\* A blocks range that lacks its start or its end, or whose start is not
\* before its end in height or in time.
badBlocks(req) ==
  /\ req.blocks # <<>>
  /\ LET b == req.blocks[1]
     IN  \/ b.start.kind = "missing" \/ b.end.kind = "missing"
         \/ /\ b.start.kind = "block" /\ b.end.kind = "block"
            /\ (b.start.height >= b.end.height \/ b.start.timeUnixMs >= b.end.timeUnixMs)

\* A times range that lacks its start, or whose start is not before its end.
badTimes(req) ==
  /\ req.times # <<>>
  /\ LET t == req.times[1]
     IN  \/ t.start.kind = "missing"
         \/ t.start.kind = "int" /\ t.end.kind = "int" /\ t.start.n >= t.end.n

\* The request was answered 400 before the formula lookup, and nothing else
\* was done for it.
rejectedBeforeLookup(o) == o.status = 400 /\ ~o.lookedUp /\ nothingDone(o)

\* C15 as stated: every request with a malformed blocks or times range, or
\* with a blockStep or timeStep that is not a positive integer, is answered
\* 400 before any formula lookup, credit use or evaluation.
C15_BadRangeRejected ==
  [][(/\ resp' # resp
      /\ \/ badBlocks(resp'.req) \/ badTimes(resp'.req)
         \/ badStep(resp'.req.blockStep) \/ badStep(resp'.req.timeStep)) =>
       /\ rejectedBeforeLookup(resp')
       /\ computations' = computations
       /\ credits' = credits]_vars

\* The request with its steps taken out.
withoutSteps(req) == [req EXCEPT !.blockStep = <<>>, !.timeStep = <<>>]

\* C15, amended: a request that passed the path, API key, address and formula
\* name checks is answered 400 before any formula lookup, credit use or
\* evaluation when its blocks or times range is malformed, when the blockStep
\* sent with a blocks range is not a positive integer, or when the timeStep
\* sent with a times range is not one. A blockStep without blocks and a
\* timeStep without times are not looked at: the request is answered as the
\* same request without them.
C15_BadRangeRejectedAfterHead ==
  [][(resp' # resp /\ validateHead(resp'.req) = Continue) =>
       /\ (\/ badBlocks(resp'.req) \/ badTimes(resp'.req)
           \/ resp'.req.blocks # <<>> /\ badStep(resp'.req.blockStep)
           \/ resp'.req.times # <<>> /\ badStep(resp'.req.timeStep)) =>
            /\ rejectedBeforeLookup(resp')
            /\ computations' = computations
            /\ credits' = credits
       /\ (resp'.req.blocks = <<>> /\ resp'.req.times = <<>>) =>
            resp' = [handle(withoutSteps(resp'.req), clock).outcome
                       EXCEPT !.req = resp'.req]]_vars

\* A times range whose start is not before its end was refused while blocks
\* were exported, the held State covered them and the caller had credit.
C15_Witness ==
  /\ answered
  /\ validateHead(resp.req) = Continue
  /\ badTimes(resp.req)
  /\ resp.req.times[1].start.kind = "int"
  /\ rejectedBeforeLookup(resp)
  /\ state >= 2
  /\ creditsWithEnough(1) # {}

\* A block step of zero sent without a blocks range was not refused.
C15_StepIgnored ==
  /\ answered
  /\ resp.req.blocks = <<>>
  /\ badStep(resp.req.blockStep)
  /\ resp.status = 200

\* The status the claim gives a request that passed validation, by what its
\* path names: 404 for an unregistered formula, for a contract formula on an
\* address that is no stored contract and for a validator formula on an
\* address that is no stored validator, 405 for a contract outside the code id
\* filter of the formula, 0 for any other request.
refusalOf(req) ==
  LET typedFormula == getTypedFormula(req.type, req.formula)
  IN  IF typedFormula = <<>> THEN 404
      ELSE IF typedFormula[1].type = "contract" /\ ~\E c \in contracts : c.address = req.address
      THEN 404
      ELSE IF typedFormula[1].type = "validator" /\ req.address \notin validators
      THEN 404
      ELSE IF /\ typedFormula[1].type = "contract"
              /\ typedFormula[1].codeIdsKeys # {}
              /\ \A c \in contracts : \A k \in typedFormula[1].codeIdsKeys :
                   c.address = req.address => c.codeId \notin findWasmCodeIdsByKeys({k})
      THEN 405
      ELSE 0

\* C16: a well-formed, authenticated request that names an unregistered
\* formula, a contract formula on an address that is not a stored contract, a
\* validator formula on an address that is not a stored validator, or a
\* contract whose code id is outside the filter of the formula, is answered
\* 404, 404, 404 and 405; no formula is evaluated, no credit is used and no
\* Computation is read or written.
C16_NotFoundNotApplicable ==
  [][(/\ resp' # resp
      /\ validateRequest(resp'.req) = Continue
      /\ refusalOf(resp'.req) # 0) =>
       /\ resp'.status = refusalOf(resp'.req)
       /\ nothingDone(resp')
       /\ computations' = computations
       /\ credits' = credits]_vars

\* A filtered formula was requested over a range on a stored contract whose
\* code id the filter excludes, and refused with 405, while blocks were
\* exported and the caller had credit.
C16_Witness ==
  /\ answered
  /\ resp.req.address = "B"
  /\ resp.req.blocks # <<>>
  /\ refusalOf(resp.req) = 405
  /\ resp.status = 405
  /\ state >= 2
  /\ creditsWithEnough(1) # {}

\* Each kind of refusal was given.
C16_WitnessNotFound ==
  /\ answered
  /\ resp.status = 404
  /\ resp.body = "validator not found"
  /\ state >= 2

----------------------------------------------------------------------------
(* Ranges over stored computations *)

ItemFormula == getTypedFormula("contract", "item")[1]

\* A computation of a formula of contract "A" at an exported block is stored,
\* valid as far as compute finds it valid, unless the formula throws there.
PrecomputeWith(f, args, H) ==
  /\ pc = "idle"
  /\ H \in 1..latest
  /\ ~\E c \in computationWhere("A", f, args) : c.blockHeight = H
  /\ \E out \in {compute(f, "A", blockAt(H), handlerContracts("A"), clock)} :
       /\ ~out.failed
       /\ computations' = computations \cup
            seqToSet(createFromComputationOutputs("A", f, args, <<out>>))
  /\ UNCHANGED <<storeVars, pc, env, detVars, transformations, validators,
                 credits, config, state, resp, runs, updater, limitVars>>

\* The same for a request without formula arguments.
PrecomputeOf(f, H) == PrecomputeWith(f, <<>>, H)

\* The same for the item formula.
Precompute(H) == PrecomputeOf(ItemFormula, H)

blocksOf(S, E) ==
  <<BlocksRange(BlockArg(S, BlockTimeUnixMs(S)), BlockArg(E, BlockTimeUnixMs(E)))>>

\* The ranges of blocks requested: the end may lie one block above the blocks
\* that are ever exported.
Ranges == {<<S, E>> \in (1..MaxHeight) \X (2..(MaxHeight + 1)) : S < E}

\* Requests for the item formula of contract "A" over every range of blocks,
\* without a step.
RangeRequests ==
  {[requestOf("", ItemPath) EXCEPT !.blocks = blocksOf(r[1], r[2])] : r \in Ranges}

\* The server ignores API keys: no account key, no credit.
InitRange ==
  /\ latest = 0
  /\ wasmRows = {}
  /\ bankBalances = {}
  /\ bankEvents = {}
  /\ txEvents = {}
  /\ contracts = {ContractRow("A", 1)}
  /\ bankWritten = FALSE
  /\ pc = "idle"
  /\ env = NoEnv
  /\ twin = NoEnv
  /\ clock = 0
  /\ transformations = {}
  /\ validators = {}
  /\ computations = {}
  /\ credits = {}
  /\ config = [ignoreApiKey |-> TRUE]
  /\ state = 0
  /\ resp = Outcome(NoRequest)
  /\ runs = NoRuns
  /\ updater = NoUpdater
  /\ testRateLimit = NoRateLimit
  /\ passed = <<>>

NextRange ==
  \/ \E del \in BOOLEAN : ExportWasm("A", ItemKey, del)
  \/ updateState
  \/ \E H \in 1..MaxHeight : Precompute(H)
  \/ \E req \in RangeRequests : computer(req)

SpecRange == InitRange /\ [][NextRange]_vars

\* What the claim says of one call of updateValidityUpToBlockHeight.
updateAsDescribed(u) ==
  /\ u.after.latestBlockHeightValid >= u.before.latestBlockHeightValid
  /\ u.ok <=> changesWithin(u.before.dependentKeys,
                            u.before.latestBlockHeightValid, u.upTo) = {}
  /\ u.ok => u.after = [u.before EXCEPT !.latestBlockHeightValid = u.upTo]
  /\ ~u.ok => u.after = u.before

\* C17: every call of updateValidityUpToBlockHeight the range handler makes
\* leaves latestBlockHeightValid at least what it was; it returns true and
\* sets latestBlockHeightValid to H exactly when no row of a recorded
\* dependency has latestBlockHeightValid < blockHeight <= H, and otherwise
\* returns false and leaves the record as it was.
C17_ValidityNeverDecreases ==
  [][resp' # resp =>
       \A i \in DOMAIN resp'.updates : updateAsDescribed(resp'.updates[i])]_vars

\* The calls are as described whenever the handler asks for a height at or
\* above the latestBlockHeightValid of the record.
ValidityNeverDecreasesUpwards ==
  [][resp' # resp =>
       \A i \in DOMAIN resp'.updates :
         resp'.updates[i].upTo >= resp'.updates[i].before.latestBlockHeightValid
           => updateAsDescribed(resp'.updates[i])]_vars

\* The handler made both calls in one request: the first failed, the missing
\* pieces were computed and stored, the second succeeded.
BothUpdatesMade ==
  /\ answered
  /\ Len(resp.updates) = 2
  /\ ~resp.updates[1].ok
  /\ resp.updates[2].ok
  /\ resp.created # <<>>

----------------------------------------------------------------------------
(* Pieces of a range *)

BalancePath == <<"account", "W", "balance">>

\* Requests over every range of blocks, without a step, for the item formula
\* of contract "A" and for the balance formula of wallet "W".
PiecesRequests ==
  {[requestOf("", path) EXCEPT !.blocks = blocksOf(r[1], r[2])] :
     path \in {ItemPath, BalancePath}, r \in Ranges}

NextPieces ==
  \/ \E del \in BOOLEAN : ExportWasm("A", ItemKey, del)
  \/ ExportBank("W", BalanceDenom)
  \/ updateState
  \/ \E req \in PiecesRequests : computer(req)

SpecPieces == InitRange /\ [][NextPieces]_vars

\* The pieces whose interval [block.height, latestBlockHeightValid] holds B.
piecesHolding(pieces, B) ==
  {i \in DOMAIN pieces :
     pieces[i].block.height <= B /\ B <= pieces[i].latestBlockHeightValid}

\* The value compute returns for the request's formula at block B, called as
\* the handler calls it for a single block.
computedAt(req, B) ==
  LET f == getTypedFormula(req.type, req.formula)[1]
  IN  compute(f, req.address, blockAt(B),
              handlerContracts(IF f.type = "contract" THEN req.address ELSE NoTarget),
              clock).value

\* Every block of the range the outcome is for lies in exactly one piece, and
\* compute returns the value of that piece at the block.
piecesAgree(o) ==
  \A B \in o.blocks[1].height..o.blocks[2].height :
    /\ Cardinality(piecesHolding(o.pieces, B)) = 1
    /\ \A i \in piecesHolding(o.pieces, B) : o.pieces[i].value = computedAt(o.req, B)

\* C18: when the handler computes a range [S, E], every block B of it lies in
\* the interval of exactly one piece of computeRange(S, E), and the value
\* single-block compute returns at B is the value of that piece.
C18_PiecesAgreeWithCompute ==
  [][(resp' # resp /\ resp'.pieces # <<>>) => piecesAgree(resp')]_vars

\* The same, for the formula that reads contract state only.
PiecesAgreeForItem ==
  [][(resp' # resp /\ resp'.pieces # <<>> /\ resp'.req.formula = "item")
       => piecesAgree(resp')]_vars

\* A range of three blocks was answered in three pieces.
ThreePieces ==
  /\ answered
  /\ resp.req.formula = "item"
  /\ Len(resp.pieces) = 3
  /\ resp.blocks[1].height = 1
  /\ resp.blocks[2].height = 3

----------------------------------------------------------------------------
(* Sampling a range *)

\* Requests for the item formula of contract "A" over every range of blocks,
\* without a step and with a step of one and of two blocks.
StepRequests ==
  {[requestOf("", ItemPath) EXCEPT !.blocks = blocksOf(r[1], r[2]), !.blockStep = blockStep] :
     r \in Ranges, blockStep \in {<<>>, <<IntArg(1)>>, <<IntArg(2)>>}}

NextStep ==
  \/ \E del \in BOOLEAN : ExportWasm("A", ItemKey, del)
  \/ updateState
  \/ \E req \in StepRequests : computer(req)

SpecStep == InitRange /\ [][NextStep]_vars

\* The end of the requested range, at most the latest block of the held State.
endOf(req) ==
  IF req.blocks[1].end.height > state THEN state ELSE req.blocks[1].end.height

\* ceil(a / b) for a >= 0 and b > 0.
ceilDiv(a, b) == IF a % b = 0 THEN a \div b ELSE (a \div b) + 1

\* The samples of a stepped range: ceil((end - start) / S) + 1 of them, the
\* i-th at start + (i - 1) * S and the last one at end, each with the value of
\* the one piece whose interval holds its height.
sampledAsDescribed(o, start, end, S) ==
  /\ Len(o.value) = ceilDiv(end - start, S) + 1
  /\ \A i \in DOMAIN o.value :
       /\ o.value[i].at = (IF start + (i - 1) * S < end THEN start + (i - 1) * S ELSE end)
       /\ Cardinality(piecesHolding(o.pieces, o.value[i].at)) = 1
       /\ \A p \in piecesHolding(o.pieces, o.value[i].at) :
            o.value[i].value = o.pieces[p].value

\* One entry per piece, in order.
entryPerPiece(o) ==
  /\ Len(o.value) = Len(o.pieces)
  /\ \A i \in DOMAIN o.value :
       /\ o.value[i].value = o.pieces[i].value
       /\ o.value[i].blockHeight = o.pieces[i].block.height

\* C19: a range computed over [start, end] (end at most the latest block, and
\* not below start) with a block step S is answered with exactly
\* ceil((end - start) / S) + 1 samples, at start, start + S, ... and last at
\* end, each with the value of the piece whose interval
\* [block.height, latestBlockHeightValid] holds the sampled height; without a
\* step it is answered with one entry per piece.
C19_Samples ==
  [][(/\ resp' # resp
      /\ resp'.status = 200
      /\ resp'.req.blocks[1].start.height <= endOf(resp'.req)) =>
       IF resp'.req.blockStep = <<>>
       THEN entryPerPiece(resp')
       ELSE sampledAsDescribed(resp', resp'.req.blocks[1].start.height,
                               endOf(resp'.req), resp'.req.blockStep[1].n)]_vars

\* A range of three blocks in three pieces was sampled with a step of two:
\* two samples, from the first piece and from the third.
C19_Witness ==
  /\ answered
  /\ resp.req.blockStep = <<IntArg(2)>>
  /\ Len(resp.pieces) = 3
  /\ Len(resp.value) = 2
  /\ resp.value[1].at = 1 /\ resp.value[2].at = 3
  /\ resp.value[2].blockHeight = 3

\* A range of two blocks was sampled with a step of two: the second sample is
\* taken at the end of the range.
SampleAtEnd ==
  /\ answered
  /\ resp.req.blockStep = <<IntArg(2)>>
  /\ resp.blocks[1].height = 1 /\ resp.blocks[2].height = 2
  /\ Len(resp.value) = 2
  /\ resp.value[2].at = 2

----------------------------------------------------------------------------
(* Single blocks and stored computations *)

blockOf(h) == <<BlockArg(h, BlockTimeUnixMs(h))>>

\* Requests for the item formula of contract "A" at each block, and at the
\* latest block.
SingleRequests ==
  {requestOf("", ItemPath)}
  \cup {[requestOf("", ItemPath) EXCEPT !.block = blockOf(h)] : h \in 1..MaxHeight}

NextSingle ==
  \/ \E del \in BOOLEAN : ExportWasm("A", ItemKey, del)
  \/ updateState
  \/ \E H \in 1..MaxHeight : Precompute(H)
  \/ \E req \in SingleRequests : computer(req)

SpecSingle == InitRange /\ [][NextSingle]_vars

\* The dependencies the formula of a request records at block B.
dependenciesAt(req, B) ==
  LET f == getTypedFormula(req.type, req.formula)[1]
  IN  compute(f, req.address, blockAt(B),
              handlerContracts(IF f.type = "contract" THEN req.address ELSE NoTarget),
              clock).dependentKeys

\* Two requests in a row for the same formula of the same address, each at a
\* given block, the second at a later block, both answered, with no row of a
\* dependency of the formula in between.
sequentialSingles(first, second) ==
  /\ first.status = 200 /\ second.status = 200
  /\ first.req.block # <<>> /\ second.req.block # <<>>
  /\ first.req.type = second.req.type
  /\ first.req.address = second.req.address
  /\ first.req.formula = second.req.formula
  /\ first.req.block[1].height < second.req.block[1].height
  /\ changesWithin(dependenciesAt(first.req, first.req.block[1].height),
                   first.req.block[1].height, second.req.block[1].height) = {}

\* C20 as stated: the second of two sequential single-block requests, with no
\* dependency row written between their blocks, does not invoke the formula:
\* it returns the value of a stored computation, whose latestBlockHeightValid
\* it extends to its block.
C20_SecondRequestReusesStored ==
  [][sequentialSingles(resp, resp') =>
       /\ resp'.evaluated = <<>>
       /\ \E c \in computations' :
            /\ c.targetAddress = resp'.req.address
            /\ c.formula = resp'.req.formula
            /\ c.latestBlockHeightValid = resp'.req.block[1].height
            /\ resp'.value = valueOfOutput(c.output)]_vars

\* C20, amended: the second of two sequential single-block requests, with no
\* dependency row written between their blocks, invokes the formula again, at
\* its own block, and returns the value that evaluation computes; it finds,
\* creates and extends no stored computation, and the Computation table is
\* left as it was.
C20_SecondRequestEvaluatesAgain ==
  [][sequentialSingles(resp, resp') =>
       /\ resp'.evaluated = <<resp'.req.block[1].height>>
       /\ resp'.value = computedAt(resp'.req, resp'.req.block[1].height)
       /\ resp'.queries = 0 /\ resp'.found = <<>>
       /\ resp'.created = <<>> /\ resp'.updates = <<>>
       /\ computations' = computations]_vars

\* A request was answered at block 3 by an evaluation at block 3 while
\* nothing was written to the key after block 1 and a computation stored at
\* block 1, valid short of block 3, was there to be extended.
C20_Witness ==
  /\ answered
  /\ resp.req.block = blockOf(3)
  /\ resp.evaluated = <<3>>
  /\ resp.value # <<>>
  /\ changesWithin(dependenciesAt(resp.req, 1), 1, 3) = {}
  /\ \E c \in computationWhere("A", ItemFormula, <<>>) :
       c.blockHeight = 1 /\ c.latestBlockHeightValid < 3

----------------------------------------------------------------------------
(* Single-block requests leave the Computation table alone *)

timeOf(t) == <<IntArg(t)>>

\* Requests for the item formula of contract "A" for a single block: at a
\* block, at a time (of a block, between two blocks, before every block, and
\* zero) or at neither.
AnySingleRequests ==
  SingleRequests
  \cup {[requestOf("", ItemPath) EXCEPT !.time = timeOf(t)] :
          t \in {0, 1, BlockTimeUnixMs(2), BlockTimeUnixMs(2) + 1}}

NextAnySingle ==
  \/ \E del \in BOOLEAN : ExportWasm("A", ItemKey, del)
  \/ updateState
  \/ \E H \in 1..MaxHeight : Precompute(H)
  \/ \E req \in AnySingleRequests : computer(req)

SpecAnySingle == InitRange /\ [][NextAnySingle]_vars

\* The height a single-block request is evaluated at: of the block given, of
\* the latest block at or before the time given, and of the latest block of
\* the held State when neither is given or no block is that old.
heightAsked(req) ==
  IF req.block # <<>> THEN req.block[1].height
  ELSE IF req.time # <<>> /\ \E h \in 1..latest : BlockTimeUnixMs(h) <= req.time[1].n
  THEN CHOOSE h \in 1..latest :
         /\ BlockTimeUnixMs(h) <= req.time[1].n
         /\ \A o \in 1..latest : BlockTimeUnixMs(o) <= req.time[1].n => o <= h
  ELSE state

\* C21: a single-block request (block, time, or neither) never reads, creates
\* or updates a Computation record: the handler invokes compute once, at the
\* block asked for, and the set of stored computations is the same before and
\* after the request, whatever is stored.
C21_SingleLeavesComputations ==
  \A req \in AnySingleRequests :
    \A handled \in {handle(req, clock)} :
      /\ handled.computations = computations
      /\ handled.outcome.status = 200
      /\ handled.outcome.evaluated = <<heightAsked(req)>>
      /\ handled.outcome.queries = 0
      /\ handled.outcome.found = <<>>
      /\ handled.outcome.created = <<>>
      /\ handled.outcome.updates = <<>>

\* A request at a time between blocks 2 and 3 was answered by an evaluation
\* at block 2 while a computation of the same formula is stored at block 2.
C21_Witness ==
  /\ answered
  /\ resp.req.time = timeOf(BlockTimeUnixMs(2) + 1)
  /\ resp.evaluated = <<2>>
  /\ resp.value # <<>>
  /\ resp.queries = 0
  /\ latest = 3
  /\ \E c \in computationWhere("A", ItemFormula, <<>>) :
       c.blockHeight = 2 /\ valueOfOutput(c.output) = resp.value

\* A request with neither block nor time was answered at the latest block of
\* the held State, below the latest exported block.
C21_WitnessStale ==
  /\ answered
  /\ resp.req.time = <<>> /\ resp.req.block = <<>>
  /\ resp.evaluated = <<state>>
  /\ state < latest
  /\ computations # {}

----------------------------------------------------------------------------
(* What a range request stores *)

\* Whether a piece is stored as a Computation of the request's key.
persisted(req, piece, table) ==
  \E c \in table :
    /\ c.targetAddress = req.address
    /\ c.formula = req.formula
    /\ c.args = NoArgs
    /\ c.blockHeight = piece.block.height
    /\ c.output = outputOf(piece.value)

\* The request was served from storage alone.
servedFromStorage(o) == o.status = 200 /\ o.evaluated = <<>> /\ o.pieces = <<>>

\* C22: every piece newly produced while a step-less range request is served
\* successfully is persisted as a Computation record, also when the request
\* found no stored computation at or below its start, and the same request
\* repeated in the state it leaves is answered from storage without invoking
\* computeRange.
C22_ProducedPiecesPersisted ==
  [][(resp' # resp /\ resp'.status = 200) =>
       /\ \A i \in DOMAIN resp'.pieces :
            persisted(resp'.req, resp'.pieces[i], computations')
       /\ \A i \in DOMAIN resp'.created : resp'.created[i] \in computations']_vars

\* After a step-less range request was served, the same request in the same
\* state is served from storage alone.
C22_RepeatServedFromStorage ==
  (answered /\ resp.status = 200) =>
    \A handled \in {handle(resp.req, clock)} : servedFromStorage(handled.outcome)

\* A range request that found no stored computation at or below its start was
\* served by computeRange and left the Computation table empty.
C22_NothingPersisted ==
  /\ answered /\ resp.status = 200
  /\ resp.found = <<>> /\ resp.queries = 1
  /\ Len(resp.pieces) >= 2
  /\ computations = {}

----------------------------------------------------------------------------
(* Range requests that end in an error *)

StrictFormula == getTypedFormula("contract", "strictItem")[1]

StrictPath == <<"contract", "A", "strictItem">>

\* Requests for the strictItem formula of contract "A" over every range of
\* blocks, without a step.
StrictRequests ==
  {[requestOf("", StrictPath) EXCEPT !.blocks = blocksOf(r[1], r[2])] : r \in Ranges}

NextFault ==
  \/ \E del \in BOOLEAN : ExportWasm("A", ItemKey, del)
  \/ updateState
  \/ \E H \in 1..MaxHeight : PrecomputeOf(StrictFormula, H)
  \/ \E req \in StrictRequests : computer(req)
  \/ \E req \in StrictRequests : computerInterrupted(req)

SpecFault == InitRange /\ [][NextFault]_vars

\* A range request ended in an error.
rangeError(o) == o.req.blocks # <<>> /\ o.status >= 400

\* C23: when a range request ends in an error (a formula failure in either
\* computeRange call, or any later failure), the stored Computation records
\* and their latestBlockHeightValid values are the same as before the request.
C23_ErrorLeavesComputations ==
  [][(resp' # resp /\ rangeError(resp')) => computations' = computations]_vars

\* A range request that ends in a formula failure leaves the stored
\* Computation records as they were.
C23_FormulaFailureLeavesComputations ==
  [][(resp' # resp /\ rangeError(resp') /\ resp'.status = 400)
       => computations' = computations]_vars

\* The formula threw in the computeRange call that extends a stored chain.
C23_FailedExtending ==
  /\ answered /\ resp.status = 400
  /\ resp.found # <<>> /\ Len(resp.updates) = 1 /\ ~resp.updates[1].ok
  /\ Len(resp.evaluated) >= 2

\* The formula threw in the computeRange call for the whole range.
C23_FailedWhole ==
  /\ answered /\ resp.status = 400
  /\ resp.updates = <<>>
  /\ Len(resp.evaluated) >= 2

\* A request ended with 500 after it had stored the computations it created.
C23_StoredBeforeError ==
  /\ answered /\ resp.status = 500
  /\ resp.created # <<>>
  /\ \A i \in DOMAIN resp.created : resp.created[i] \in computations

----------------------------------------------------------------------------
(* The args of the lookup key *)

\* The same two formula arguments as the query string gives them, in either
\* order.
ArgsInKeyOrder == <<Arg("a", "1"), Arg("b", "2")>>
ArgsReversed == <<Arg("b", "2"), Arg("a", "1")>>

\* Requests for the item formula of contract "A" over the ranges of exported
\* blocks, without a step, with the arguments in either order.
ArgsRequests ==
  {[requestOf("", ItemPath) EXCEPT !.blocks = blocksOf(r[1], r[2]), !.args = args] :
     r \in {x \in Ranges : x[2] <= MaxHeight}, args \in {ArgsInKeyOrder, ArgsReversed}}

NextArgs ==
  \/ \E del \in BOOLEAN : ExportWasm("A", ItemKey, del)
  \/ updateState
  \/ \E H \in 1..MaxHeight : PrecomputeWith(ItemFormula, ArgsInKeyOrder, H)
  \/ \E req \in ArgsRequests : computer(req)

SpecArgs == InitRange /\ [][NextArgs]_vars

\* The request with its arguments in the other order.
reordered(req) ==
  [req EXCEPT !.args = IF @ = ArgsInKeyOrder THEN ArgsReversed ELSE ArgsInKeyOrder]

\* C24: two requests whose args are equal as mappings but were supplied in a
\* different key order look up, and on persistence write, the same
\* Computation records: the handler finds the same stored computations for
\* both and leaves the same table.
C24_ArgsOrderIrrelevant ==
  \A req \in ArgsRequests :
    \A handled \in {handle(req, clock)} :
      \A other \in {handle(reordered(req), clock)} :
        /\ handled.outcome.found = other.outcome.found
        /\ handled.computations = other.computations

\* A request with its arguments in reverse key order found no stored
\* computation while one is stored at its start block under the same
\* arguments.
C24_StoredNotFound ==
  /\ answered /\ resp.status = 200
  /\ resp.req.args = ArgsReversed
  /\ resp.queries = 1 /\ resp.found = <<>>
  /\ \E c \in computations :
       /\ c.args = canonicalArgs(resp.req.args)
       /\ c.targetAddress = resp.req.address /\ c.formula = resp.req.formula
       /\ c.blockHeight = resp.blocks[1].height

----------------------------------------------------------------------------
(* Concurrent range requests *)

\* The natural key of a Computation.
sameKey(c, d) ==
  /\ c.targetAddress = d.targetAddress /\ c.formula = d.formula
  /\ c.args = d.args /\ c.blockHeight = d.blockHeight

\* instance.save() after updateValidityUpToBlockHeight: the changed
\* latestBlockHeightValid is written to the row of the instance.
saveValidity(table, u) ==
  IF u.after = u.before THEN table
  ELSE {IF sameKey(c, u.before)
        THEN [c EXCEPT !.latestBlockHeightValid = u.after.latestBlockHeightValid]
        ELSE c : c \in table}

\* The insert of createFromComputationOutputs: an upsert on the natural key.
upsertAll(table, rows) ==
  {c \in table : \A i \in DOMAIN rows : ~sameKey(c, rows[i])} \cup seqToSet(rows)

\* The handler starts on a step-less range request: the end block is capped
\* and the stored computations are read.
findExisting(p, req) ==
  /\ runs[p].pc = "idle"
  /\ validateRequest(req) = Continue
  /\ \E handled \in {handle(req, clock)} :
       runs' = [runs EXCEPT ![p] =
                  [pc |-> "found", req |-> req,
                   blocks |-> capEnd(parsedBlocks(req)),
                   chain |-> existingComputations(req.address, ItemFormula, req.args,
                                                  capEnd(parsedBlocks(req))),
                   created |-> <<>>, alone |-> handled.computations]]
  /\ UNCHANGED <<storeVars, pc, env, detVars, transformations, validators,
                 computations, credits, config, state, resp, updater, limitVars>>

\* If the chain is covered before the end, its last computation is validated
\* up to the end block; otherwise the whole range is computed and nothing is
\* written.
validateLast(p) ==
  /\ runs[p].pc = "found"
  /\ IF runs[p].chain # <<>> /\ isRangeCoveredBeforeEnd(runs[p].chain)
     THEN \E u \in {UpdateCall(lastOf(runs[p].chain), runs[p].blocks[2].height)} :
            /\ computations' = saveValidity(computations, u)
            /\ runs' = [runs EXCEPT ![p].pc = IF u.ok THEN "done" ELSE "extend"]
     ELSE /\ computations' = computations
          /\ runs' = [runs EXCEPT ![p].pc = "done"]
  /\ UNCHANGED <<storeVars, pc, env, detVars, transformations, validators,
                 credits, config, state, resp, updater, limitVars>>

\* The missing computations kept with their first one.
missingUnshifted(p) ==
  computeRange(ItemFormula, runs[p].req.address,
               computationBlock(lastOf(runs[p].chain)), runs[p].blocks[2])

\* The rest is computed from the block of the last existing computation, the
\* first result is dropped.
missingComputations(p) ==
  Tail(computeRange(ItemFormula, runs[p].req.address,
                    computationBlock(lastOf(runs[p].chain)), runs[p].blocks[2]))

\* The missing computations are computed and stored.
createMissing(p) ==
  /\ runs[p].pc = "extend"
  /\ \E rows \in {createFromComputationOutputs(runs[p].req.address, ItemFormula,
                                               runs[p].req.args, missingComputations(p))} :
       /\ computations' = upsertAll(computations, rows)
       /\ runs' = [runs EXCEPT ![p].pc = "created", ![p].created = rows]
  /\ UNCHANGED <<storeVars, pc, env, detVars, transformations, validators,
                 credits, config, state, resp, updater, limitVars>>

\* The final computation is validated.
validateFinal(p) ==
  /\ runs[p].pc = "created"
  /\ \E u \in {UpdateCall(lastOf(runs[p].chain \o runs[p].created),
                          runs[p].blocks[2].height)} :
       computations' = saveValidity(computations, u)
  /\ runs' = [runs EXCEPT ![p].pc = "done"]
  /\ UNCHANGED <<storeVars, pc, env, detVars, transformations, validators,
                 credits, config, state, resp, updater, limitVars>>

\* No request is being served.
quiet == \A p \in Procs : runs[p].pc = "idle"

\* Requests for the item formula of contract "A" over the ranges of blocks.
ConcurrentRequests ==
  {[requestOf("", ItemPath) EXCEPT !.blocks = blocksOf(r[1], r[2])] : r \in Ranges}

\* A key of the contract that the item formula does not read.
OtherKey == << MapName, <<2>> >>

\* The store is written, at the key the formula reads or at another one, and
\* computations are stored before the requests arrive; then two requests are
\* served, their steps interleaved.
NextConcurrent ==
  \/ quiet /\ \E ks \in {ItemKey, OtherKey} : ExportWasm("A", ks, FALSE)
  \/ quiet /\ updateState
  \/ quiet /\ \E H \in 1..MaxHeight : Precompute(H)
  \/ \E p \in Procs : \E req \in ConcurrentRequests : findExisting(p, req)
  \/ \E p \in Procs : validateLast(p)
  \/ \E p \in Procs : createMissing(p)
  \/ \E p \in Procs : validateFinal(p)

SpecConcurrent == InitRange /\ [][NextConcurrent]_vars

\* Both requests, for the same range, found the same chain and stored what it
\* missed.
bothExtended ==
  /\ \A p \in Procs : runs[p].pc = "done" /\ runs[p].created # <<>>
  /\ runs[1].req = runs[2].req
  /\ runs[1].chain = runs[2].chain

\* C25: under any interleaving of concurrent range requests for the same
\* (targetAddress, formula, args), the store holds at most one Computation
\* record per (targetAddress, formula, args, block), and two requests that
\* both extended the same chain and stored the same missing pieces leave the
\* records one request alone leaves.
C25_OneRecordPerKey ==
  /\ \A c \in computations : \A d \in computations : sameKey(c, d) => c = d
  /\ bothExtended => computations = runs[1].alone

\* Both requests extended the same chain by the same computations.
C25_Witness ==
  /\ bothExtended
  /\ runs[1].created = runs[2].created
  /\ \A i \in DOMAIN runs[1].created : runs[1].created[i] \in computations

----------------------------------------------------------------------------
(* Getters step by step: the dependency and the read *)

\* A getter is between its steps.
Reading == {"get", "prefetch", "balance:history", "balance:event"}

\* The dependency of get pushed after the read instead of before it.
recordKeyLate(e, a, ks) ==
  [e EXCEPT !.last = Call("get", a, dbKeyForKeys(ks))]

\* get up to its first await: the dependent key is pushed.
recordKey(e, a, ks) ==
  [e EXCEPT
     !.dependentKeys =
        @ \cup {[key |-> getDependentKey(WasmNS, a, dbKeyForKeys(ks)), prefix |-> FALSE]},
     !.last = Call("get", a, dbKeyForKeys(ks))]

getRecord(a, ks) ==
  /\ pc = "eval"
  /\ pc' = "get"
  /\ env' = recordKey(env, a, ks)
  /\ UNCHANGED <<otherVars, storeVars, detVars>>

\* The rest of get: the memo is checked, the store read on an untried key, the
\* memo written and the value returned. Nothing is pushed here.
getFetch ==
  /\ pc = "get"
  /\ pc' = "eval"
  /\ \E ks \in KeyTuples :
       /\ dbKeyForKeys(ks) = env.last.key
       /\ env' = [envGet(env, env.last.address, ks) EXCEPT
                    !.dependentKeys = env.dependentKeys]
  /\ UNCHANGED <<otherVars, storeVars, detVars>>

\* prefetch up to its first await: one dependent key per requested key.
recordKeys(e, a, listOfKeys) ==
  [e EXCEPT
     !.dependentKeys = @ \cup
        {[key |-> getDependentKey(WasmNS, a, prefetchKey(i)),
          prefix |-> endsWithComma(prefetchKey(i))] : i \in listOfKeys},
     !.last = Call("prefetch", a, {prefetchKey(i) : i \in listOfKeys})]

prefetchRecord(a, listOfKeys) ==
  /\ pc = "eval"
  /\ pc' = "prefetch"
  /\ env' = recordKeys(env, a, listOfKeys)
  /\ UNCHANGED <<otherVars, storeVars, detVars>>

\* The rest of prefetch: the findAll and the memo writes.
prefetchFetch ==
  /\ pc = "prefetch"
  /\ pc' = "eval"
  /\ \E listOfKeys \in PrefetchArgs :
       /\ {prefetchKey(i) : i \in listOfKeys} = env.last.key
       /\ env' = [envPrefetch(env, env.last.address, listOfKeys) EXCEPT
                    !.dependentKeys = env.dependentKeys]
  /\ UNCHANGED <<otherVars, storeVars, detVars>>

\* getBalance up to the BankBalance row: the row is read and memoised, and
\* its balance returned when there is one. No dependent key is pushed.
balanceRead(a, denom) ==
  /\ pc = "eval"
  /\ LET dk == getDependentKey(BankBalanceNS, a, <<>>)
         bankBalance == IF tried(env.cache, dk) THEN firstCached(env.cache, dk)
                        ELSE findBankBalance(a, env.block)
     IN  IF bankBalance # <<>>
         THEN /\ pc' = "eval"
              /\ env' = envGetBalance(env, a, denom)
         ELSE /\ pc' = "balance:history"
              /\ env' = [env EXCEPT !.cache = pointCache(@, dk, bankBalance),
                                    !.last = Call("getBalance", a, denom)]
  /\ UNCHANGED <<otherVars, storeVars, detVars>>

\* historyExists: without history getBalance returns; with it the dependent
\* key of the BankStateEvent is pushed.
balanceHistory ==
  /\ pc = "balance:history"
  /\ LET a == env.last.address
         denom == env.last.key
         history == historyStep(env.contracts, a)
     IN  IF history.result = <<>>
         THEN /\ pc' = "eval"
              /\ env' = envGetBalance(env, a, denom)
         ELSE /\ pc' = "balance:event"
              /\ env' = [env EXCEPT
                           !.contracts = history.contracts,
                           !.dependentKeys = @ \cup
                              {[key |-> getDependentKey(BankStateNS, a, denom),
                                prefix |-> FALSE]}]
  /\ UNCHANGED <<otherVars, storeVars, detVars>>

\* The rest of getBalance: the BankStateEvent is read. Nothing is pushed here.
balanceEvent ==
  /\ pc = "balance:event"
  /\ pc' = "eval"
  /\ env' = [envGetBalance(env, env.last.address, env.last.key) EXCEPT
               !.dependentKeys = env.dependentKeys]
  /\ UNCHANGED <<otherVars, storeVars, detVars>>

\* What prefetch is asked for: the key of the item, or the map it is in.
OrderArgs ==
  {{[keys |-> ItemKey, map |-> FALSE]}, {[keys |-> <<MapName>>, map |-> TRUE]}}

\* The exporter writes while getters of an evaluation run step by step.
NextOrder ==
  \/ \E del \in BOOLEAN : ExportWasm("A", ItemKey, del)
  \/ ExportBank("A", <<1>>)
  \/ \E H \in 1..MaxHeight : getEnv(H, NoTarget, FALSE)
  \/ EndEval
  \/ getRecord("A", ItemKey)
  \/ getFetch
  \/ \E items \in OrderArgs : prefetchRecord("A", items)
  \/ prefetchFetch
  \/ \E a \in BankAddrs : balanceRead(a, <<1>>)
  \/ balanceHistory
  \/ balanceEvent

SpecOrder == InitBank /\ [][NextOrder]_vars

\* The dependency entries of the data the last getter call reads, or has
\* read, on a path that records a dependency.
entriesOf(call) ==
  IF call.op = "get"
  THEN {[key |-> getDependentKey(WasmNS, call.address, call.key), prefix |-> FALSE]}
  ELSE IF call.op = "prefetch"
  THEN {[key |-> getDependentKey(WasmNS, call.address, k), prefix |-> endsWithComma(k)] :
          k \in call.key}
  ELSE IF call.op = "getBalance"
          /\ (pc = "balance:event"
                \/ getDependentKey(BankStateNS, call.address, call.key) \in call.data)
  THEN {[key |-> getDependentKey(BankStateNS, call.address, call.key), prefix |-> FALSE]}
  ELSE {}

\* C26: in get, prefetch and getBalance the dependency entry of a datum is in
\* dependentKeys when the getter is about to read that datum, and it is still
\* there after the read whatever the read found: a row, no row, or a
\* memoised null.
C26_RecordedBeforeRead ==
  pc \in {"get", "prefetch", "balance:event", "eval"} =>
    entriesOf(env.last) \subseteq env.dependentKeys

\* get read the store, found no row and left its exact dependency.
C26_Witness ==
  /\ pc = "eval"
  /\ env.last.op = "get" /\ env.last.reads = 1 /\ env.last.result = <<>>
  /\ env.last.rows = {}
  /\ entriesOf(env.last) \subseteq env.dependentKeys

\* getBalance found no BankStateEvent and left its dependency.
C26_WitnessBalance ==
  /\ pc = "eval"
  /\ env.last.op = "getBalance" /\ env.last.result = <<>>
  /\ entriesOf(env.last) # {}
  /\ entriesOf(env.last) \subseteq env.dependentKeys

\* prefetch of a key with a memoised null left its dependency.
C26_WitnessPrefetch ==
  /\ pc = "eval"
  /\ env.last.op = "prefetch" /\ env.last.rows = {}
  /\ \E e \in entriesOf(env.last) : e.prefix
  /\ entriesOf(env.last) \subseteq env.dependentKeys

----------------------------------------------------------------------------
(* When the stored chain answers a range *)

\* Exports that change the item of contract "A", exports at a key the item
\* formula does not read, stored computations and step-less range requests.
NextChain ==
  \/ \E ks \in {ItemKey, OtherKey} : ExportWasm("A", ks, FALSE)
  \/ updateState
  \/ \E H \in 1..MaxHeight : Precompute(H)
  \/ \E req \in RangeRequests : computer(req)

SpecChain == InitRange /\ [][NextChain]_vars

\* The stored computations of the item formula of "A" before the request.
storedFor(req) ==
  {c \in computations :
     c.targetAddress = req.address /\ c.formula = req.formula /\ c.args = "{}"}

\* The stored computations at or below S, and those in (S, E], by block.
startsAt(req, S) == {c \in storedFor(req) : c.blockHeight <= S}
restIn(req, S, E) == {c \in storedFor(req) : S < c.blockHeight /\ c.blockHeight <= E}

\* The start computation followed by the stored computations in (S, E]: a
\* sequence of the stored computations in ascending order of block, the first
\* being the most recent one at or below S.
isStoredChain(chain, req, S, E) ==
  /\ chain # <<>>
  /\ chain[1] \in startsAt(req, S)
  /\ \A c \in startsAt(req, S) : c.blockHeight <= chain[1].blockHeight
  /\ {chain[i] : i \in 2..Len(chain)} = restIn(req, S, E)
  /\ \A i \in 1..(Len(chain) - 1) : chain[i].blockHeight < chain[i + 1].blockHeight

\* Every consecutive pair satisfies c_i.latestBlockHeightValid =
\* c_i+1.block.height - 1.
chained(chain) ==
  \A i \in 1..(Len(chain) - 1) :
    chain[i].latestBlockHeightValid = chain[i + 1].blockHeight - 1

\* The answer is made of stored computations, not of a computeRange(S, E).
fromStored(o) == o.status = 200 /\ o.pieces = <<>>

\* The whole range was computed and the answer is made of its pieces alone.
recomputed(o) ==
  /\ o.pieces = computeRange(ItemFormula, o.req.address, o.blocks[1], o.blocks[2])
  /\ o.evaluated = heightsOf(o.pieces)
  /\ o.created = <<>>
  /\ o.value = [i \in DOMAIN o.pieces |->
                  RangeEntry(o.pieces[i].block.height, o.pieces[i])]

\* C27: a step-less range request [S, E] is answered with stored
\* computations in place of a full computeRange(S, E) only when a stored
\* computation exists at or below S, the start computation followed by the
\* stored computations in (S, E] is chained, and the last piece of the answer
\* is valid up to E; when no start computation exists or the chain is not
\* chained, the whole range is computed and the answer holds no stored piece.
C27_StoredOnlyWhenChained ==
  [][(resp' # resp /\ resp'.status = 200) =>
       /\ fromStored(resp') =>
            /\ isStoredChain(resp'.found, resp'.req,
                             resp'.blocks[1].height, resp'.blocks[2].height)
            /\ chained(resp'.found)
            /\ resp'.updates # <<>>
            /\ lastOf(resp'.updates).ok
            /\ lastOf(resp'.updates).upTo = resp'.blocks[2].height
            /\ lastOf(resp'.updates).before = lastOf(resp'.found \o resp'.created)
            /\ lastOf(resp'.updates).after.latestBlockHeightValid
                 = resp'.blocks[2].height
       /\ (startsAt(resp'.req, resp'.blocks[1].height) = {}
             \/ ~chained(resp'.found)) =>
            recomputed(resp')]_vars

\* A chain of two stored computations, the first below S, answered the range.
C27_Witness ==
  /\ answered /\ fromStored(resp)
  /\ Len(resp.found) = 2
  /\ resp.found[1].blockHeight < resp.blocks[1].height
  /\ resp.created = <<>>

\* Stored computations that are not chained: the whole range was computed.
C27_WitnessBroken ==
  /\ answered /\ resp.status = 200
  /\ Len(resp.found) >= 2 /\ ~chained(resp.found)
  /\ resp.pieces # <<>>

\* No stored computation at or below S, one above it: the range was computed.
C27_WitnessNoStart ==
  /\ answered /\ resp.status = 200
  /\ resp.found = <<>> /\ resp.pieces # <<>>
  /\ \E c \in computations : c.blockHeight > resp.blocks[1].height

----------------------------------------------------------------------------
(* Extending the stored chain *)

\* The stored chain is chained and the validation of its last computation up
\* to the end block failed.
extending(o) ==
  /\ o.found # <<>> /\ chained(o.found)
  /\ o.updates # <<>> /\ ~o.updates[1].ok
  /\ o.updates[1].before = lastOf(o.found)
  /\ o.updates[1].upTo = o.blocks[2].height

\* What computeRange returns from the block of the last stored computation
\* through the end block.
fromLastStored(o) ==
  computeRange(ItemFormula, o.req.address,
               [height |-> lastOf(o.found).blockHeight,
                timeUnixMs |-> lastOf(o.found).blockTimeUnixMs],
               o.blocks[2])

\* The answer of a step-less range request made of the given records.
answerOf(records) ==
  [i \in DOMAIN records |->
     [at |-> records[i].blockHeight,
      blockHeight |-> records[i].blockHeight,
      blockTimeUnixMs |-> records[i].blockTimeUnixMs,
      value |-> IF records[i].output = <<>> THEN <<>>
                ELSE <<JSONParse(records[i].output[1])>>]]

\* What the claim says of the request the outcome is of.
appended(o, table) ==
  /\ o.status = 200
  /\ o.evaluated = heightsOf(fromLastStored(o))
  /\ Len(o.created) = Len(fromLastStored(o)) - 1
  /\ \A i \in DOMAIN o.created :
       /\ o.created[i].blockHeight = fromLastStored(o)[i + 1].block.height
       /\ o.created[i].output = outputOf(fromLastStored(o)[i + 1].value)
       /\ o.created[i].latestBlockHeightValid
            = fromLastStored(o)[i + 1].latestBlockHeightValid
       /\ \E c \in table : sameKey(c, o.created[i]) /\ c.output = o.created[i].output
  /\ o.value = answerOf(o.found \o o.created)
  /\ \A i \in 1..(Len(o.value) - 1) : o.value[i].blockHeight < o.value[i + 1].blockHeight

\* C28: when the stored chain for [S, E] is chained but
\* updateValidityUpToBlockHeight(E) on its last piece fails, the handler calls
\* computeRange from the block of the last stored piece through E, drops the
\* first result, persists the remaining results, and answers with the stored
\* chain followed by the persisted results, in ascending order of block and
\* with no block twice.
C28_ExtensionAppended ==
  [][(resp' # resp /\ extending(resp')) => appended(resp', computations')]_vars

\* The same, when the last stored piece is valid at its own block.
C28_ExtensionOfValidRecord ==
  [][(resp' # resp /\ extending(resp')
        /\ lastOf(resp'.found).latestBlockHeightValid >= lastOf(resp'.found).blockHeight)
       => appended(resp', computations')]_vars

\* The last stored piece was not valid at its own block: nothing was computed
\* beyond it, nothing was stored and the whole range was computed.
C28_NothingAppended ==
  /\ answered /\ extending(resp)
  /\ lastOf(resp.found).latestBlockHeightValid < lastOf(resp.found).blockHeight
  /\ resp.created = <<>>
  /\ resp.pieces # <<>>

\* One stored computation was extended by two computations.
C28_Witness ==
  /\ answered /\ extending(resp)
  /\ Len(resp.found) = 1 /\ Len(resp.created) = 2
  /\ Len(resp.value) = 3
  /\ \A i \in DOMAIN resp.created : resp.created[i] \in computations

\* A chain of two stored computations was extended by one computation.
C28_WitnessChain ==
  /\ answered /\ extending(resp)
  /\ Len(resp.found) = 2 /\ Len(resp.created) = 1
  /\ Len(resp.value) = 3

----------------------------------------------------------------------------
(* Stored answers against computeRange *)

\* The value of the last of the pieces or entries that starts at or below B.
RECURSIVE valueCovering(_, _, _)
valueCovering(heights, values, B) ==
  IF heights = <<>> THEN <<"none">>
  ELSE IF Len(heights) > 1 /\ heights[2] <= B
  THEN valueCovering(Tail(heights), Tail(values), B)
  ELSE IF heights[1] <= B THEN <<"value", values[1]>>
  ELSE <<"none">>

\* The value the answer gives block B.
answeredAt(o, B) ==
  valueCovering([i \in DOMAIN o.value |-> o.value[i].blockHeight],
                [i \in DOMAIN o.value |-> o.value[i].value], B)

\* The value computeRange(S, E) gives block B on the store as it is.
computedOver(o, B) ==
  LET whole == computeRange(ItemFormula, o.req.address, o.blocks[1], o.blocks[2])
  IN  valueCovering(heightsOf(whole), [i \in DOMAIN whole |-> whole[i].value], B)

C29_WitnessStored ==
  /\ answered /\ fromStored(resp)
  /\ Len(resp.found) = 2 /\ resp.evaluated = <<>>
  /\ resp.blocks[1].height < resp.blocks[2].height

----------------------------------------------------------------------------
(* The State snapshot updater *)

\* setTimeout(updateState, 1_000)
UpdateDelayMs == 1000

\* No State is held.
NoState == 0 - 1

\* How State.getSingleton() ends: with the State, with none, or by throwing.
Reloads == {"ok", "empty", "threw"}

\* The snapshot after a reload that assigns whatever getSingleton returned.
reloadUnchecked(previous, outcome) ==
  IF outcome = "ok" THEN latest
  ELSE IF outcome = "empty" THEN NoState
  ELSE previous

\* The snapshot after the try block of updateState: the new State if there is
\* one, the previous snapshot if there is none or getSingleton threw.
reload(previous, outcome) ==
  IF outcome = "ok" THEN latest ELSE previous

\* loadComputer: without a State it throws; with one it starts the updater
\* and awaits its first run before the handler is built.
loadComputer(found) ==
  /\ updater.phase = "loading"
  /\ IF found
     THEN /\ state' = latest
          /\ updater' = [updater EXCEPT !.phase = "starting", !.running = TRUE]
     ELSE /\ state' = state
          /\ updater' = [updater EXCEPT !.phase = "failed"]
  /\ UNCHANGED <<storeVars, pc, env, detVars, transformations, validators,
                 computations, credits, config, resp, runs, limitVars>>

\* One run of updateState: the reload, then, in the finally block, the timer
\* for the next run.
updateStateRun(outcome) ==
  /\ updater.running
  /\ state' = reload(state, outcome)
  /\ updater' = [updater EXCEPT !.phase = "serving",
                                !.running = FALSE,
                                !.timers = Append(@, UpdateDelayMs),
                                !.last = outcome]
  /\ UNCHANGED <<storeVars, pc, env, detVars, transformations, validators,
                 computations, credits, config, resp, runs, limitVars>>

\* The timer is due: updateState runs again.
timerFires ==
  /\ ~updater.running
  /\ updater.timers # <<>>
  /\ updater' = [updater EXCEPT !.running = TRUE, !.timers = Tail(@)]
  /\ UNCHANGED <<storeVars, pc, env, detVars, transformations, validators,
                 computations, credits, config, state, resp, runs, limitVars>>

\* The process starts without a snapshot.
InitUpdater ==
  /\ latest = 0
  /\ wasmRows = {}
  /\ bankBalances = {}
  /\ bankEvents = {}
  /\ txEvents = {}
  /\ contracts = {ContractRow("A", 1)}
  /\ bankWritten = FALSE
  /\ pc = "idle"
  /\ env = NoEnv
  /\ twin = NoEnv
  /\ clock = 0
  /\ transformations = {}
  /\ validators = {}
  /\ computations = {}
  /\ credits = {}
  /\ config = [ignoreApiKey |-> TRUE]
  /\ state = NoState
  /\ resp = Outcome(NoRequest)
  /\ runs = NoRuns
  /\ updater = [phase |-> "loading", running |-> FALSE, timers |-> <<>>, last |-> "none"]
  /\ testRateLimit = NoRateLimit
  /\ passed = <<>>

\* The exporter writes, the process loads, the updater runs on its timer and
\* the handler, once built, serves requests.
NextUpdater ==
  \/ ExportWasm("A", ItemKey, FALSE)
  \/ \E found \in BOOLEAN : loadComputer(found)
  \/ \E outcome \in Reloads : updateStateRun(outcome)
  \/ timerFires
  \/ updater.phase = "serving" /\ \E req \in SingleRequests : computer(req)

SpecUpdater == InitUpdater /\ [][NextUpdater]_vars

\* A timer that was set fires, and a reload that was started ends.
SpecUpdaterLive ==
  /\ SpecUpdater
  /\ WF_vars(timerFires)
  /\ WF_vars(\E outcome \in Reloads : updateStateRun(outcome))

started == updater.phase \in {"starting", "serving"}

\* C30: outside test mode every run of the snapshot updater, whether the
\* reload succeeded, returned no state or threw, sets the one timer of the
\* next run, one second ahead, so that runs follow one another for as long as
\* the process runs; a reload that failed or returned no state leaves the
\* snapshot as it was, and no request is served without a snapshot.
C30_UpdaterKeepsRunning ==
  /\ [][(updater.running /\ ~updater'.running) =>
          /\ updater'.timers = <<UpdateDelayMs>>
          /\ updater'.last # "ok" => state' = state
          /\ updater'.last = "ok" => state' = latest]_vars
  /\ [][resp' # resp => (state # NoState /\ state' # NoState)]_vars
  /\ [](started => state # NoState)
  /\ (started /\ ~updater.running) ~> updater.running
  /\ updater.running ~> ~updater.running

\* A reload returned no state while a newer block was exported: the snapshot
\* is the previous one, the timer is set and a request was served from it.
C30_Witness ==
  /\ updater.last = "empty" /\ ~updater.running
  /\ updater.timers = <<UpdateDelayMs>>
  /\ state # NoState /\ state < latest
  /\ answered /\ resp.evaluated = <<state>>

\* The same after a reload that threw.
C30_WitnessThrew ==
  /\ updater.last = "threw" /\ ~updater.running
  /\ updater.timers = <<UpdateDelayMs>>
  /\ state # NoState /\ state < latest

----------------------------------------------------------------------------
(* The interval of a range request *)

\* The wall clock of the host is at the time of block MaxHeight.
InitInterval ==
  /\ latest = 0
  /\ wasmRows = {}
  /\ bankBalances = {}
  /\ bankEvents = {}
  /\ txEvents = {}
  /\ contracts = {ContractRow("A", 1)}
  /\ bankWritten = FALSE
  /\ pc = "idle"
  /\ env = NoEnv
  /\ twin = NoEnv
  /\ clock = BlockTimeUnixMs(MaxHeight)
  /\ transformations = {}
  /\ validators = {}
  /\ computations = {}
  /\ credits = {CreditRow(1, -1)}
  /\ config = [ignoreApiKey |-> FALSE]
  /\ state = 0
  /\ resp = Outcome(NoRequest)
  /\ runs = NoRuns
  /\ updater = NoUpdater
  /\ testRateLimit = NoRateLimit
  /\ passed = <<>>

timesOf(start, end) == <<TimesRange(TimeArg(start), end)>>

\* Times of blocks, times relative to the current time (negative) and an
\* omitted end time.
IntervalTimes ==
  {timesOf(BlockTimeUnixMs(1), MissingTime),
   timesOf(BlockTimeUnixMs(2), MissingTime),
   timesOf(BlockTimeUnixMs(1), TimeArg(BlockTimeUnixMs(2))),
   timesOf(0 - BlockTimeUnixMs(2), TimeArg(0 - BlockTimeUnixMs(1))),
   timesOf(0 - BlockTimeUnixMs(1), TimeArg(BlockTimeUnixMs(1))),
   timesOf(0 - BlockTimeUnixMs(1), MissingTime)}

\* Requests with an account key for the item formula of contract "A", over
\* ranges of blocks and of times.
IntervalRequests ==
  {[requestOf("good", ItemPath) EXCEPT !.blocks = blocksOf(r[1], r[2])] : r \in Ranges}
  \cup {[requestOf("good", ItemPath) EXCEPT !.times = times] : times \in IntervalTimes}

NextInterval ==
  \/ ExportWasm("A", ItemKey, FALSE)
  \/ updateState
  \/ \E req \in IntervalRequests : computer(req)

SpecInterval == InitInterval /\ [][NextInterval]_vars

\* The interval of blocks the handler asks credit for.
intervalOf(o) == o.blocks[2].height - o.blocks[1].height + 1

\* C31: every call of computeRange for a client range has blockStart.height
\* <= blockEnd.height and the interval passed to creditsForBlockInterval is
\* at least 1, for every accepted request, also after the end block is capped
\* at the latest block and after times are resolved to blocks.
C31_RangeOrdered ==
  [][(resp' # resp /\ resp'.blocks # <<>>) =>
       /\ resp'.evaluated # <<>> =>
            resp'.blocks[1].height <= resp'.blocks[2].height
       /\ resp'.charged # <<>> => intervalOf(resp') >= 1]_vars

\* The same for requests whose start block is at or below the latest block of
\* the State the handler holds and whose times are not relative.
C31_OrderedWithinState ==
  [][(/\ resp' # resp /\ resp'.blocks # <<>>
      /\ resp'.blocks[1].height <= state
      /\ \A i \in DOMAIN parsedTimes(resp'.req) : parsedTimes(resp'.req)[i] >= 0) =>
       /\ resp'.blocks[1].height <= resp'.blocks[2].height
       /\ intervalOf(resp') >= 1]_vars

\* A blocks range that starts above the latest block of the held State: the
\* end was capped below the start, credit was asked for an interval below 1
\* and the formula was evaluated.
C31_CappedBelowStart ==
  /\ answered /\ resp.req.blocks # <<>>
  /\ resp.blocks[2].height < resp.blocks[1].height
  /\ resp.charged # <<>> /\ intervalOf(resp) < 1
  /\ resp.evaluated # <<>>

\* A relative start time and an absolute end time that pass validation and
\* resolve to a start block above the end block.
C31_RelativeStartAfterEnd ==
  /\ answered /\ resp.req.times # <<>>
  /\ resp.req.times[1].start.n < 0
  /\ resp.blocks # <<>>
  /\ resp.blocks[2].height < resp.blocks[1].height
  /\ resp.blocks[2].height <= state
  /\ resp.evaluated # <<>>

\* A range of blocks within the held State was charged and computed.
C31_Ordered ==
  /\ answered /\ resp.status = 200 /\ resp.blocks # <<>>
  /\ resp.blocks[1].height < resp.blocks[2].height
  /\ resp.charged # <<>> /\ Len(resp.evaluated) >= 2

----------------------------------------------------------------------------
(* AccountKey.useCredit, step by step *)

\* A call of useCredit that is not running.
IdleCall == [pc |-> "idle", amount |-> 0, credit |-> 0, pending |-> {}, returned |-> "none"]

\* The amounts of credit the calls ask for.
Amounts == 1..MaxCredit

\* An account key with one credit row per amount up to MaxCredit + 1, none
\* used, and no call of useCredit running.
InitCredit ==
  /\ latest = 0
  /\ wasmRows = {}
  /\ bankBalances = {}
  /\ bankEvents = {}
  /\ txEvents = {}
  /\ contracts = {ContractRow("A", 1)}
  /\ bankWritten = FALSE
  /\ pc = "idle"
  /\ env = NoEnv
  /\ twin = NoEnv
  /\ clock = 0
  /\ transformations = {}
  /\ validators = {}
  /\ computations = {}
  /\ credits = {CreditRow(a, a) : a \in 1..(MaxCredit + 1)}
  /\ config = [ignoreApiKey |-> FALSE]
  /\ state = 0
  /\ resp = Outcome(NoRequest)
  /\ runs = [p \in Procs |-> IdleCall]
  /\ updater = NoUpdater
  /\ testRateLimit = NoRateLimit
  /\ passed = <<>>

\* The query of useCredit: the credit with the lowest amount among those with
\* enough remaining. Without one the call returns false; with one it goes on
\* to the two increments.
useCreditFind(p, amount) ==
  /\ runs[p].pc = "idle"
  /\ runs' = [runs EXCEPT ![p] =
       IF creditsWithEnough(amount) = {}
       THEN [IdleCall EXCEPT !.amount = amount, !.returned = "false"]
       ELSE [pc |-> "found", amount |-> amount,
             credit |-> firstCredit(creditsWithEnough(amount)).id,
             pending |-> {"used", "hits"}, returned |-> "true"]]
  /\ UNCHANGED <<storeVars, pc, env, detVars, transformations, validators,
                 computations, credits, config, state, resp, updater, limitVars>>

\* The row after credit.increment(field): UPDATE ... SET field = field + by.
incremented(c, field, amount) ==
  IF field = "used" THEN [c EXCEPT !.used = @ + amount] ELSE [c EXCEPT !.hits = @ + 1]

\* One of the two increments of the credit found, on the row as it is stored
\* now; the call is over after both.
useCreditIncrement(p, field) ==
  /\ runs[p].pc = "found"
  /\ field \in runs[p].pending
  /\ credits' = {IF c.id = runs[p].credit THEN incremented(c, field, runs[p].amount) ELSE c :
                   c \in credits}
  /\ runs' = [runs EXCEPT ![p] =
       IF runs[p].pending = {field}
       THEN [@ EXCEPT !.pc = "idle", !.pending = {}]
       ELSE [@ EXCEPT !.pending = @ \ {field}]]
  /\ UNCHANGED <<storeVars, pc, env, detVars, transformations, validators,
                 computations, config, state, resp, updater, limitVars>>

NextCredit ==
  \/ \E p \in Procs : \E amount \in Amounts : useCreditFind(p, amount)
  \/ \E p \in Procs : \E field \in {"used", "hits"} : useCreditIncrement(p, field)

SpecCredit == InitCredit /\ [][NextCredit]_vars

\* C32: for every credit with a finite amount, used <= amount after any
\* sequence and any interleaving of useCredit calls on the same account key.
C32_UsedWithinAmount ==
  \A c \in credits : c.amount # 0 - 1 => c.used <= c.amount

\* What the claim says of one call holds: a call that returns true has found
\* a credit with amount -1 or amount >= used + requested at its query and
\* adds the requested amount to used and 1 to hits of that credit, and a call
\* that returns false changes no row.
C32_EachCallAsDescribed ==
  [][\A p \in Procs :
       /\ (runs[p].pc = "idle" /\ runs'[p].pc = "found") =>
            /\ runs'[p].returned = "true"
            /\ \E c \in credits :
                 /\ c.id = runs'[p].credit
                 /\ c.amount = 0 - 1 \/ c.amount >= c.used + runs'[p].amount
       /\ (runs[p].pc = "idle" /\ runs'[p] # runs[p] /\ runs'[p].pc = "idle") =>
            (runs'[p].returned = "false" /\ credits' = credits)
       /\ (runs[p].pc = "found" /\ runs'[p] # runs[p]) =>
            \E field \in runs[p].pending :
              credits' = {IF c.id = runs[p].credit
                            THEN incremented(c, field, runs[p].amount) ELSE c : c \in credits}]_vars

\* Two calls found the same credit before either increment: the credit is
\* used beyond its amount once both calls are over.
C32_Overdrawn ==
  /\ \A p \in Procs : runs[p].pc = "idle" /\ runs[p].returned = "true"
  /\ \E c \in credits : c.amount # 0 - 1 /\ c.used > c.amount /\ c.hits >= 2

\* A call returned false with no other call running.
C32_Refused ==
  \E p \in Procs : runs[p].returned = "false" /\ \A q \in Procs : runs[q].pc = "idle"

----------------------------------------------------------------------------
(* The debit of a request *)

\* An account key with one credit row of MaxCredit + 1 credits.
InitDebit ==
  /\ latest = 0
  /\ wasmRows = {}
  /\ bankBalances = {}
  /\ bankEvents = {}
  /\ txEvents = {}
  /\ contracts = {ContractRow("A", 1)}
  /\ bankWritten = FALSE
  /\ pc = "idle"
  /\ env = NoEnv
  /\ twin = NoEnv
  /\ clock = 0
  /\ transformations = {}
  /\ validators = {}
  /\ computations = {}
  /\ credits = {CreditRow(1, MaxCredit + 1)}
  /\ config = [ignoreApiKey |-> FALSE]
  /\ state = 0
  /\ resp = Outcome(NoRequest)
  /\ runs = NoRuns
  /\ updater = NoUpdater
  /\ testRateLimit = NoRateLimit
  /\ passed = <<>>

\* Requests with the account key for the item formula of contract "A": over
\* the ranges of blocks without a step, and for one block.
DebitRangeRequests ==
  {[requestOf("good", ItemPath) EXCEPT !.blocks = blocksOf(r[1], r[2])] : r \in Ranges}

DebitSingleRequests ==
  {requestOf("good", ItemPath), [requestOf("good", ItemPath) EXCEPT !.block = blockOf(1)]}

\* The credits asked for the range of a request being served.
debitOf(run) == creditsForBlockInterval(run.blocks[2].height - run.blocks[1].height + 1)

\* The same step without the credit query: the request
\* goes on with no credit used.
debitRangeUnpaid(p, req) ==
  /\ runs[p].pc = "idle"
  /\ validateRequest(req) = Continue
  /\ runs' = [runs EXCEPT ![p] = [IdleRun EXCEPT !.pc = "paid", !.req = req,
                                                 !.blocks = capEnd(parsedBlocks(req))]]
  /\ UNCHANGED <<storeVars, pc, env, detVars, transformations, validators,
                 computations, credits, config, state, resp, updater, limitVars>>

\* The range branch up to the credit: the end block is capped, useCredit is
\* awaited with the credits of the interval; without credit the request is
\* answered 402, with credit it goes on.
debitRange(p, req) ==
  /\ runs[p].pc = "idle"
  /\ validateRequest(req) = Continue
  /\ \E blocks \in {capEnd(parsedBlocks(req))} :
       \E paid \in {useCredit(creditsForBlockInterval(
                                blocks[2].height - blocks[1].height + 1))} :
         /\ \A c \in paid.credits : c.hits <= MaxHits /\ c.used >= 0 - MaxCredit
         /\ credits' = paid.credits
         /\ IF paid.ok
            THEN /\ runs' = [runs EXCEPT ![p] = [IdleRun EXCEPT !.pc = "paid", !.req = req,
                                                                !.blocks = blocks]]
                 /\ resp' = resp
            ELSE /\ runs' = runs
                 /\ resp' = handle(req, clock).outcome
  /\ UNCHANGED <<storeVars, pc, env, detVars, transformations, validators,
                 computations, config, state, updater, limitVars>>

\* After the credit: the stored computations of the range are read.
readStored(p) ==
  /\ runs[p].pc = "paid"
  /\ runs' = [runs EXCEPT ![p].pc = "found",
                          ![p].chain = existingComputations(runs[p].req.address, ItemFormula,
                                                            runs[p].req.args, runs[p].blocks)]
  /\ UNCHANGED <<storeVars, pc, env, detVars, transformations, validators,
                 computations, credits, config, state, resp, updater, limitVars>>

\* The range is answered: the request is over.
respondRange(p) ==
  /\ runs[p].pc = "done"
  /\ runs' = [runs EXCEPT ![p] = IdleRun]
  /\ UNCHANGED <<storeVars, pc, env, detVars, transformations, validators,
                 computations, credits, config, state, resp, updater, limitVars>>

\* One request at a time is followed step by step.
Stepped == {1}

\* The store is written and computations are stored while no request is
\* served; single-block requests are served whole, range requests step by
\* step.
NextDebit ==
  \/ quiet /\ ExportWasm("A", ItemKey, FALSE)
  \/ quiet /\ updateState
  \/ quiet /\ \E H \in 1..MaxHeight : Precompute(H)
  \/ quiet /\ \E req \in DebitSingleRequests : computer(req)
  \/ \E p \in Stepped : \E req \in DebitRangeRequests : debitRange(p, req)
  \/ \E p \in Stepped : readStored(p)
  \/ \E p \in Stepped : validateLast(p)
  \/ \E p \in Stepped : createMissing(p)
  \/ \E p \in Stepped : validateFinal(p)
  \/ \E p \in Stepped : respondRange(p)

SpecDebit == InitDebit /\ [][NextDebit]_vars

\* The requests that are past their credit check.
pastDebit == {p \in Procs : runs[p].pc # "idle"}

\* No stored computation was read or written and no formula was evaluated
\* for the response.
nothingComputed(o) ==
  /\ o.queries = 0 /\ o.found = <<>> /\ o.created = <<>> /\ o.updates = <<>>
  /\ o.pieces = <<>>

\* C33: in range mode with an account key the credits of the interval (end
\* height - start height + 1, end capped) are debited before any stored
\* computation is read and before any formula is evaluated; when useCredit
\* returns false the response is 402 'insufficient credits', no Computation is
\* read or written and computeRange is not called; in single-block mode a
\* false credit result yields 402 and never the computed value.
C33_DebitFirst ==
  /\ [](\A c \in credits : c.hits >= Cardinality(pastDebit))
  /\ [][\A p \in Procs :
          /\ (runs[p].pc = "idle" /\ runs'[p].pc # "idle") =>
               /\ runs'[p].pc = "paid" /\ runs'[p].chain = <<>>
               /\ computations' = computations
               /\ \A c \in credits : \E d \in credits' :
                    /\ d.id = c.id /\ d.hits = c.hits + 1
                    /\ d.used = c.used + debitOf(runs'[p])
          /\ (runs[p].pc # "found" /\ runs'[p].pc = "found") => runs[p].pc = "paid"
          /\ (runs'[p].pc # runs[p].pc /\ runs'[p].pc \in {"extend", "created", "done"}) =>
               runs[p].pc \in {"found", "extend", "created"}]_vars
  /\ [][(resp' # resp /\ resp'.charged # <<>>) =>
          IF useCredit(resp'.charged[1]).ok
          THEN resp'.status # 402
          ELSE /\ resp'.status = 402 /\ resp'.body = "insufficient credits"
               /\ resp'.value = <<>>
               /\ nothingComputed(resp')
               /\ resp'.blocks # <<>> => resp'.evaluated = <<>>
               /\ computations' = computations
               /\ credits' = credits]_vars

\* A range request was paid and has extended a stored chain.
C33_Witness ==
  \E p \in Procs :
    /\ runs[p].pc = "done" /\ runs[p].created # <<>>
    /\ \E c \in credits : c.used >= debitOf(runs[p]) /\ debitOf(runs[p]) >= 1

\* A range request was answered 402 while computations of its range are
\* stored.
C33_WitnessRefused ==
  /\ answered /\ resp.status = 402 /\ resp.blocks # <<>>
  /\ existingComputations(resp.req.address, ItemFormula, resp.req.args, resp.blocks) # <<>>

\* A single-block request was answered 402.
C33_WitnessSingle ==
  /\ answered /\ resp.status = 402 /\ resp.blocks = <<>>
  /\ resp.value = <<>>

----------------------------------------------------------------------------
(* The rate limit of the test account key *)

testCooldownSeconds == 10

\* The wall clock moves in steps of TickMs, a quarter of the cooldown,
\* MaxTicks times.
TickMs == (testCooldownSeconds * 1000) \div 4
MaxTicks == 9

\* The client IP addresses.
IPs == {"ip1", "ip2"}

\* A request of the test key that has not arrived.
NoArrival == [pc |-> "idle", ip |-> "", status |-> 0]

\* The server at some time after the epoch; no request of the test key was
\* served.
InitLimit ==
  /\ latest = 0
  /\ wasmRows = {}
  /\ bankBalances = {}
  /\ bankEvents = {}
  /\ txEvents = {}
  /\ contracts = {ContractRow("A", 1)}
  /\ bankWritten = FALSE
  /\ pc = "idle"
  /\ env = NoEnv
  /\ twin = NoEnv
  /\ clock = TickMs
  /\ transformations = {}
  /\ validators = {}
  /\ computations = {}
  /\ credits = {}
  /\ config = [ignoreApiKey |-> FALSE]
  /\ state = 0
  /\ resp = Outcome(NoRequest)
  /\ runs = [p \in Procs |-> NoArrival]
  /\ updater = NoUpdater
  /\ testRateLimit = NoRateLimit
  /\ passed = <<>>

\* Time passes.
tick ==
  /\ clock < TickMs * (MaxTicks + 1)
  /\ clock' = clock + TickMs
  /\ UNCHANGED <<storeVars, pc, env, twin, transformations, validators,
                 computations, credits, config, state, resp, runs, updater, limitVars>>

\* A request with the test key arrives from an IP address; the handler awaits
\* the account key.
receive(p, ip) ==
  /\ runs[p].pc = "idle"
  /\ runs' = [runs EXCEPT ![p] = [pc |-> "key", ip |-> ip, status |-> 0]]
  /\ UNCHANGED <<storeVars, pc, env, detVars, transformations, validators,
                 computations, credits, config, state, resp, updater, limitVars>>

\* Remove old rate limited IPs.
removeOld(limits, now) ==
  [ip \in {i \in DOMAIN limits : ~(now - limits[i] >= testCooldownSeconds * 1000)} |->
     limits[ip]]

\* The rate limit with a window of half the cooldown.
rateLimitedHalf(limits, ip, now) ==
  /\ ip \in DOMAIN limits
  /\ limits[ip] # 0
  /\ now - limits[ip] < testCooldownSeconds * 500

\* lastUsed && now - lastUsed < testCooldownSeconds * 1000
rateLimited(limits, ip, now) ==
  /\ ip \in DOMAIN limits
  /\ limits[ip] # 0
  /\ now - limits[ip] < testCooldownSeconds * 1000

\* testRateLimit.set(ip, now)
setLimit(limits, ip, now) ==
  [i \in DOMAIN limits \cup {ip} |-> IF i = ip THEN now ELSE limits[i]]

\* The account key is the test key: old entries are removed, the request is
\* answered 429 when its IP is limited, and otherwise the IP is given the
\* current time and the request goes on. No await lies between these steps.
rateLimit(p) ==
  /\ runs[p].pc = "key"
  /\ \E now \in {clock} : \E limits \in {removeOld(testRateLimit, now)} :
       IF rateLimited(limits, runs[p].ip, now)
       THEN /\ testRateLimit' = limits
            /\ passed' = passed
            /\ runs' = [runs EXCEPT ![p].pc = "idle", ![p].status = 429]
       ELSE /\ testRateLimit' = setLimit(limits, runs[p].ip, now)
            /\ passed' = Append(passed, [ip |-> runs[p].ip, at |-> now])
            /\ runs' = [runs EXCEPT ![p].pc = "idle", ![p].status = 0]
  /\ UNCHANGED <<storeVars, pc, env, detVars, transformations, validators,
                 computations, credits, config, state, resp, updater>>

NextLimit ==
  \/ tick
  \/ \E p \in Procs : \E ip \in IPs : receive(p, ip)
  \/ \E p \in Procs : rateLimit(p)

SpecLimit == InitLimit /\ [][NextLimit]_vars

\* The times at which requests of an IP passed the rate limit.
passedAt(ip) == {passed[i].at : i \in {j \in DOMAIN passed : passed[j].ip = ip}}

\* The time of the last request of the IP that passed, 0 without one.
lastPassed(ip) ==
  IF passedAt(ip) = {} THEN 0 ELSE CHOOSE t \in passedAt(ip) : \A u \in passedAt(ip) : u <= t

\* C34: for requests with the test account key at most one request per client
\* IP passes the rate limit in any window of 10 seconds, under any
\* interleaving: a request less than 10 seconds after the last accepted one
\* of its IP gets 429 and does not move the window, and an IP whose last
\* accepted request is 10 seconds old or older is accepted again.
C34_OnePerWindow ==
  /\ [](\A i \in DOMAIN passed : \A j \in DOMAIN passed :
          (i < j /\ passed[i].ip = passed[j].ip) =>
            passed[j].at - passed[i].at >= testCooldownSeconds * 1000)
  /\ [][\A p \in Procs : (runs[p].pc = "key" /\ runs'[p].pc = "idle") =>
          IF passedAt(runs[p].ip) # {}
             /\ clock - lastPassed(runs[p].ip) < testCooldownSeconds * 1000
          THEN /\ runs'[p].status = 429
               /\ passed' = passed
               /\ testRateLimit'[runs[p].ip] = lastPassed(runs[p].ip)
          ELSE /\ runs'[p].status # 429
               /\ passed' = Append(passed, [ip |-> runs[p].ip, at |-> clock])
               /\ testRateLimit'[runs[p].ip] = clock]_vars

\* An IP was limited and, 10 seconds after its last accepted request, was
\* accepted again, while two requests were being served.
C34_Witness ==
  /\ \E i \in DOMAIN passed : \E j \in DOMAIN passed :
       /\ i < j /\ passed[i].ip = passed[j].ip
       /\ passed[j].at - passed[i].at = testCooldownSeconds * 1000
  /\ \E p \in Procs : runs[p].pc = "idle" /\ runs[p].status = 429
  /\ \E p \in Procs : runs[p].pc = "key"

\* A request was answered 429 less than 10 seconds after the last accepted
\* request of its IP.
C34_WitnessLimited ==
  \E p \in Procs :
    /\ runs[p].pc = "idle" /\ runs[p].status = 429
    /\ clock - lastPassed(runs[p].ip) = testCooldownSeconds * 1000 - TickMs
    /\ testRateLimit[runs[p].ip] = lastPassed(runs[p].ip)

----------------------------------------------------------------------------
(* Getters after prefetch *)

\* Rows and tombstones are written under the map and next to it; an
\* evaluation calls prefetch, get and getMap in any order.
NextPrefetched ==
  \/ \E a \in Addrs, ks \in MapStoreKeys, del \in BOOLEAN : ExportWasm(a, ks, del)
  \/ \E H \in 1..MaxHeight : getEnv(H, NoTarget, FALSE)
  \/ EndEval
  \/ \E a \in Addrs, ks \in KeyTuples : get(a, ks)
  \/ \E a \in Addrs : getMap(a, MapName, "string")
  \/ \E a \in Addrs, items \in PrefetchArgs : prefetch(a, items)

SpecPrefetched == Init /\ [][NextPrefetched]_vars

\* The Environment of the evaluation with nothing memoised.
unprefetched == [env EXCEPT !.cache = EmptyCache, !.calls = {}]

\* The key of the last call was given to prefetch before, as an exact key or
\* inside a map prefix.
prefetchedBefore ==
  \E dk \in env.last.data :
    /\ tried(env.cache, dk)
    /\ <<"prefetch", dk>> \in env.calls \/ prefetchedPrefixBefore(env.calls, dk)

\* The most recent row of the key of the last call at or below the target
\* block.
lastRowOfKey ==
  findOneDesc({r \in wasmRows :
                 /\ r.contractAddress = env.last.address
                 /\ r.key = env.last.key
                 /\ blockHeightFilter(r, env.block)})

C35_WitnessNoRow ==
  /\ pc = "eval" /\ env.last.op = "get" /\ env.last.reads = 0
  /\ prefetchedBefore
  /\ lastRowOfKey = <<>>
  /\ wasmRows # {}

\* getMap answered from the memo of a prefetched prefix under which one key is
\* tombstoned and another is set.
C35_WitnessMap ==
  /\ pc = "eval" /\ env.last.op = "getMap" /\ env.last.reads = 0
  /\ env.last.prefetched
  /\ env.last.result # <<>> /\ Cardinality(DOMAIN env.last.result[1]) = 1
  /\ \E r \in env.last.rows : r.delete

\* C36: within one evaluation getDateKeyModified returns the same date
\* whether or not the key was prefetched earlier, as an exact key or inside a
\* map prefix, also when the most recent row of the key at or below the target
\* block is a tombstone.
C36_DatePrefetchTransparent ==
  (pc = "eval" /\ env.last.op = "getDateKeyModified") =>
    env.last.result = dateResult(pointEvent(EmptyCache, env.last.address,
                                            env.last.key, env.block))

\* The same for the keys whose most recent row is not a tombstone.
C36_SameUnlessTombstone ==
  (/\ pc = "eval" /\ env.last.op = "getDateKeyModified"
   /\ ~(lastRowOfKey # <<>> /\ lastRowOfKey[1].delete)) =>
    env.last.result = dateResult(pointEvent(EmptyCache, env.last.address,
                                            env.last.key, env.block))

\* getDateKeyModified returned no date for a prefetched key whose most recent
\* row is a tombstone; without the prefetch it returns the date of that row.
C36_TombstonePrefetched ==
  /\ pc = "eval" /\ env.last.op = "getDateKeyModified" /\ env.last.reads = 0
  /\ prefetchedBefore
  /\ lastRowOfKey # <<>> /\ lastRowOfKey[1].delete
  /\ env.last.result = <<>>
  /\ dateResult(lastRowOfKey) # <<>>

----------------------------------------------------------------------------
(* The stored chain after an extension *)

\* The request was answered by extending the stored chain: computeRange ran
\* from the last stored computation and what it returned after the first
\* result was stored.
extended(o) == extending(o) /\ o.status = 200 /\ o.created # <<>>

\* The stored computations of the request's range: the start computation and
\* the rest through the end block.
storedChain(o) ==
  existingComputations(o.req.address, ItemFormula, o.req.args, o.blocks)

\* C37: after a step-less range request [S, E] was answered by extending a
\* stored chain, the stored computations from the start computation through E
\* form a continuous chain again: each piece's latestBlockHeightValid equals
\* the next piece's block height minus 1, including the pair of the former
\* last piece and the first newly persisted piece.
C37_ChainAfterExtension ==
  [][(resp' # resp /\ extended(resp')) => chained(storedChain(resp))']_vars

\* The newly persisted pieces as they are stored.
storedCreated(o) ==
  [i \in DOMAIN o.created |-> CHOOSE c \in computations : sameKey(c, o.created[i])]

\* The same for the pieces after the former last one: the stored chain that
\* was found is continuous, the newly persisted pieces are stored and
\* continuous, and the last of them is valid up to the end block.
C37_NewPiecesChained ==
  [][(resp' # resp /\ extended(resp')) =>
       /\ chained(resp'.found)
       /\ \A i \in DOMAIN resp'.created :
            \E c \in computations' : sameKey(c, resp'.created[i])
       /\ chained(storedCreated(resp))'
       /\ lastOf(storedCreated(resp))'.latestBlockHeightValid = resp'.blocks[2].height]_vars

\* The former last piece, valid at its own block, was left valid up to a block
\* below the one before the first new piece: the stored chain is not
\* continuous after the extension.
C37_GapAfterFormerLast ==
  /\ answered /\ extended(resp)
  /\ lastOf(resp.found).latestBlockHeightValid >= lastOf(resp.found).blockHeight
  /\ lastOf(resp.found).latestBlockHeightValid < resp.created[1].blockHeight - 1
  /\ resp.created[1] \in computations
  /\ lastOf(resp.found) \in computations
  /\ ~chained(storedChain(resp))

\* The former last piece was valid up to the block before the first new piece.
C37_Continuous ==
  /\ answered /\ extended(resp)
  /\ lastOf(resp.found).latestBlockHeightValid = resp.created[1].blockHeight - 1
  /\ chained(storedChain(resp))

----------------------------------------------------------------------------
(* Range requests with a step *)

\* The steps sent with a request: a block step, a time step, or both.
StepArgs ==
  {[blockStep |-> <<IntArg(1)>>, timeStep |-> <<>>],
   [blockStep |-> <<>>, timeStep |-> <<IntArg(BlockTimeUnixMs(1))>>],
   [blockStep |-> <<IntArg(2)>>, timeStep |-> <<IntArg(BlockTimeUnixMs(1))>>]}

\* Requests for the item formula of contract "A" with a step, over ranges of
\* blocks and over ranges of times.
SteppedRequests ==
  {[requestOf("", ItemPath) EXCEPT !.blocks = blocksOf(r[1], r[2]),
                                   !.blockStep = step.blockStep,
                                   !.timeStep = step.timeStep] :
     r \in {<<1, 3>>, <<2, 3>>}, step \in StepArgs}
  \cup
  {[requestOf("", ItemPath) EXCEPT !.times = times,
                                   !.blockStep = step.blockStep,
                                   !.timeStep = step.timeStep] :
     times \in {timesOf(BlockTimeUnixMs(1), TimeArg(BlockTimeUnixMs(3))),
                timesOf(BlockTimeUnixMs(2), MissingTime)},
     step \in StepArgs}

NextStepped ==
  \/ \E ks \in {ItemKey, OtherKey} : ExportWasm("A", ks, FALSE)
  \/ updateState
  \/ \E H \in 1..MaxHeight : Precompute(H)
  \/ \E req \in SteppedRequests : computer(req)

SpecStepped == InitRange /\ [][NextStepped]_vars

\* No Computation was read, created or updated for the answer.
noneStored(o) ==
  o.queries = 0 /\ o.found = <<>> /\ o.created = <<>> /\ o.updates = <<>>

\* The whole range was computed for the answer and no Computation was read,
\* created or updated.
computedAfresh(o) ==
  /\ noneStored(o)
  /\ o.pieces = computeRange(ItemFormula, o.req.address, o.blocks[1], o.blocks[2])
  /\ o.evaluated = heightsOf(o.pieces)

\* C38 as stated: a range request that sets blockStep or timeStep never
\* reads, creates or updates a Computation record; it always runs a full
\* computeRange over the requested range and leaves the stored computations
\* unchanged.
C38_StepNeverStored ==
  [][(/\ resp' # resp /\ resp'.blocks # <<>>
      /\ resp'.req.blockStep # <<>> \/ resp'.req.timeStep # <<>>) =>
       /\ computedAfresh(resp')
       /\ computations' = computations]_vars

\* C38, amended: a request that sets blockStep together with blocks, or
\* timeStep together with times, never reads, creates or updates a
\* Computation record and leaves the stored computations unchanged, and when
\* it is evaluated as a range it runs a full computeRange over the range. A
\* timeStep sent without times and a blockStep sent without blocks are not
\* looked at: the request is served as the same request without them.
C38_ParsedStepNeverStored ==
  [][(resp' # resp /\ (resp'.req.blocks # <<>> \/ resp'.req.times # <<>>)) =>
       IF \/ resp'.req.blocks # <<>> /\ resp'.req.blockStep # <<>>
          \/ resp'.req.times # <<>> /\ resp'.req.timeStep # <<>>
       THEN /\ noneStored(resp')
            /\ computations' = computations
            /\ resp'.blocks # <<>> => computedAfresh(resp')
       ELSE \A handled \in {handle(withoutSteps(resp'.req), clock)} :
              /\ resp'.value = handled.outcome.value
              /\ resp'.found = handled.outcome.found
              /\ computations' = handled.computations]_vars

\* A times range with a time step whose times resolved to no block: the
\* request was evaluated at one block, and no Computation was touched.
C38_WitnessNoRange ==
  /\ answered /\ resp.req.times # <<>> /\ resp.req.timeStep # <<>>
  /\ resp.blocks = <<>>
  /\ resp.status = 200 /\ Len(resp.evaluated) = 1
  /\ noneStored(resp)

\* A blocks range with a block step was computed afresh while a continuous
\* chain of stored computations covers it up to its end.
C38_Witness ==
  /\ answered /\ resp.status = 200
  /\ resp.req.blocks # <<>> /\ resp.req.blockStep # <<>>
  /\ resp.blocks # <<>>
  /\ storedChain(resp) # <<>> /\ chained(storedChain(resp))
  /\ lastOf(storedChain(resp)).latestBlockHeightValid >= resp.blocks[2].height
  /\ resp.blocks[1].height < resp.blocks[2].height
  /\ computedAfresh(resp)

\* The same for a times range with a time step.
C38_WitnessTimes ==
  /\ answered /\ resp.status = 200
  /\ resp.req.times # <<>> /\ resp.req.timeStep # <<>> /\ resp.req.blockStep = <<>>
  /\ resp.blocks # <<>>
  /\ storedChain(resp) # <<>> /\ chained(storedChain(resp))
  /\ resp.blocks[1].height < resp.blocks[2].height
  /\ computedAfresh(resp)

\* A blocks range sent with a time step alone was answered from the stored
\* computations.
C38_StepNotLookedAt ==
  /\ answered /\ resp.status = 200
  /\ resp.req.blocks # <<>> /\ resp.req.timeStep # <<>> /\ resp.req.blockStep = <<>>
  /\ resp.found # <<>> /\ resp.pieces = <<>>

----------------------------------------------------------------------------
(* Blocks, times and the branch of the handler *)

\* A time before the first block.
EarlyMs == BlockTimeUnixMs(1) - 1000

\* Requests for the item formula of contract "A" over blocks, over times that
\* resolve to blocks or lie before the first block, and at a time.
ResolveRequests ==
  {[requestOf("", ItemPath) EXCEPT !.blocks = blocksOf(r[1], r[2])] :
     r \in {<<1, 2>>, <<1, 3>>, <<2, 3>>}}
  \cup
  {[requestOf("", ItemPath) EXCEPT !.times = times] :
     times \in {timesOf(BlockTimeUnixMs(1), TimeArg(BlockTimeUnixMs(2))),
                timesOf(BlockTimeUnixMs(1), MissingTime),
                timesOf(EarlyMs, TimeArg(BlockTimeUnixMs(2))),
                timesOf(EarlyMs, TimeArg(EarlyMs + 500))}}
  \cup
  {[requestOf("", ItemPath) EXCEPT !.time = <<IntArg(t)>>] :
     t \in {0, BlockTimeUnixMs(1)}}

NextResolve ==
  \/ ExportWasm("A", ItemKey, FALSE)
  \/ updateState
  \/ \E H \in 1..MaxHeight : Precompute(H)
  \/ \E req \in ResolveRequests : computer(req)

SpecResolve == InitRange /\ [][NextResolve]_vars

\* The answer is that of a range evaluation.
rangeAnswer(o) == o.blocks # <<>> /\ o.body = "range"

\* The answer is that of one evaluation at the latest block of the held State.
singleAtLatest(o) ==
  o.blocks = <<>> /\ o.body = "value" /\ o.evaluated = <<state>>

\* C39: a request that passes validation, with no test key, for a formula
\* that is not dynamic and with blocks or times is always answered by range
\* evaluation over the blocks those parameters resolve to, never by a
\* single-block evaluation at the latest block, also when the start or the
\* end of times resolves to no block.
C39_RangeNeverSingle ==
  [][(/\ resp' # resp /\ resp'.status = 200
      /\ resp'.req.blocks # <<>> \/ resp'.req.times # <<>>) =>
       /\ rangeAnswer(resp')
       /\ ~singleAtLatest(resp')]_vars

\* The same for blocks and for times whose start and end resolve to blocks:
\* the range evaluated is the one they resolve to, its end capped.
C39_RangeWhenResolved ==
  [][(/\ resp' # resp /\ resp'.status = 200
      /\ resp'.req.blocks # <<>> \/ resp'.req.times # <<>>
      /\ resolveBlocks(parsedBlocks(resp'.req),
                       resolveTimes(parsedTimes(resp'.req), clock)) # <<>>) =>
       /\ rangeAnswer(resp')
       /\ resp'.blocks = capEnd(resolveBlocks(parsedBlocks(resp'.req),
                                              resolveTimes(parsedTimes(resp'.req), clock)))]_vars

\* A times range whose end lies before the first block was answered with one
\* value, computed at the latest block of the held State.
C39_TimesAnsweredSingle ==
  /\ answered /\ resp.status = 200
  /\ resp.req.times # <<>> /\ resp.req.times[1].end.n = EarlyMs + 500
  /\ getFirst # <<>>
  /\ singleAtLatest(resp)
  /\ state >= 2

\* A request with time = 0 was evaluated at the latest block of the held
\* State; no block has a time at or below 0.
C39_TimeZeroAtLatest ==
  /\ answered /\ resp.status = 200
  /\ resp.req.time = <<IntArg(0)>>
  /\ singleAtLatest(resp) /\ state >= 2
  /\ getForTime(0) = <<>>

\* A times range was answered by range evaluation over the blocks of its
\* times.
C39_TimesAnsweredRange ==
  /\ answered /\ resp.status = 200 /\ resp.req.times # <<>>
  /\ rangeAnswer(resp)
  /\ resp.blocks[1].height = 1 /\ resp.blocks[2].height = 2

====
